---- MODULE Spec2Model ----
(***************************************************************************)
(* Model of bloom's unit of work, tracking repository, aggregate event     *)
(* buffer and event buses.                                                 *)
(*                                                                         *)
(*   Spec     one unit-of-work instance (sync or async, in-memory or       *)
(*            SQLAlchemy backed, with or without an event bus) running a   *)
(*            sequence of scopes                                           *)
(*   SpecBus  one event bus (HandlersRegistry or AsyncHandlersRegistry):   *)
(*            register and handle                                          *)
(*   SpecAgg  one aggregate: raise_event and flush_events                  *)
(*   SpecLoop the event loop running one AsyncHandlersRegistry.handle      *)
(*   SpecRepo one tracking repository over an in-memory repository         *)
(*   SpecCtor the construction of a unit of work                           *)
(*   SpecMem  one in-memory repository, bare or publishing events          *)
(*   SpecEq   the comparison of two entities                               *)
(*   SpecVo   the construction and use of one value object                 *)
(*   SpecAlloc the allocation of order lines to batches                    *)
(*   SpecPj   scopes on one unit of work of bloom.prajnan                   *)
(***************************************************************************)
EXTENDS Integers, Sequences, FiniteSets, TLC

\* ---- bounds of the model ----
MaxEvents == 2       \* events raised over one run of Spec
MaxScopes == 2       \* scopes opened on the unit of work
MaxRepos == 2        \* length of the unit of work's repository list
MaxCommits == 1      \* commit calls made by one scope body
MaxHandlers == 3     \* register calls on the bus of SpecBus
MaxAggEvents == 4    \* events raised on the aggregate of SpecAgg
MaxTasks == 3        \* handlers registered for the event handled in SpecLoop
MaxSuspends == 2     \* times one handler coroutine suspends before it finishes
MaxAssigns == 3      \* attribute assignments on the unit of work of SpecCtor
MaxPubEvents == 3    \* events raised on the aggregates of SpecMem
MaxQty == 2          \* largest quantity of an order line of SpecAlloc
MaxAllocCalls == 2   \* calls made on the batches of SpecAlloc
MaxPjScopes == 3     \* scopes opened on the unit of work of SpecPj
MaxPjCommits == 1    \* commit calls made by one scope body of SpecPj

\* ---- the objects of a run ----
Aggregates == {"a1", "a2"}          \* instances of domain.Aggregate
PlainEntities == {"e1"}             \* instances of domain.Entity that are no Aggregate
Entities == Aggregates \cup PlainEntities
\* objects of SpecRepo: a1 and a1b are two objects with the same identity
Objects == {"a1", "a1b", "a2"}
Identities == {"a1", "a2", "a3"}    \* identities asked for in SpecRepo
Repos == {"r1", "r2"}               \* TrackingRepository instances
\* the entities of each repository's entity type: r1 is a repository of plain
\* entities and aggregates, r2 a repository of aggregates
Holds(r) == IF r = "r1" THEN {"a1", "e1"} ELSE {"a1", "a2"}
UowEventTypes == {"Allocate"}       \* the event class the aggregates of Spec raise
\* event classes: Event is the base class, the other two derive from it
EventTypes == {"Event", "Allocate", "Deallocate"}
\* the classes an instance of class t is an instance of, nearest first
Mro(t) == IF t = "Event" THEN <<"Event">> ELSE <<t, "Event">>
HandlerNames == {"h1", "h2"}        \* handler callables
ExcKinds == {"Exception", "BaseException"} \* what a scope body can raise
\* entity classes of SpecEq: Batch and Product derive from Entity, SpecialBatch
\* from Batch
EntityTypes == {"Entity", "Batch", "SpecialBatch", "Product"}
\* the proper base classes of class t
Bases(t) ==
    IF t = "SpecialBatch" THEN {"Batch", "Entity"}
    ELSE IF t \in {"Batch", "Product"} THEN {"Entity"}
    ELSE {}
EntityIdValues == {"i1", "i2", "i3"}
\* in-memory repository classes of SpecMem
MemKinds == {"prajnan", "memory", "async_memory"}
\* value object classes of SpecVo: Data has fields only; Checked defines
\* __post_init__; Derived is a subclass of Checked whose own __post_init__
\* starts with super().__post_init__()
VoClasses == {"Data", "Checked", "Derived"}
VoAttrs == {"qty", "name", "extra"}
VoValues == {1, 2}
Unset == 0                          \* an attribute that was never assigned
\* batches and order lines of SpecAlloc
BatchRefs == {"b1", "b2", "b3"}
Skus == {"s1", "s2"}
NoEta == 0                          \* eta None: the batch is in stock
Etas == {NoEta, 1, 2}
OrderLines == {[orderid |-> o, sku |-> "s1", qty |-> q] : o \in {"o1", "o2"}, q \in 1..MaxQty}
              \cup {[orderid |-> "o1", sku |-> "s2", qty |-> 1]}

VARIABLES
    \* unit of work (Spec)
    variant,        \* "sync": AbstractUnitOfWork, "async": AbstractAsyncUnitOfWork
    backend,        \* "memory" or "sqla" subclass
    event_bus,      \* TRUE iff self._event_bus is a registry (not None)
    pc,             \* "idle" or "body" (inside the with block)
    scopeNo,        \* number of scopes entered so far
    repositories,   \* self._repositories
    tracked,        \* tracked[r]: r._tracked
    events,         \* events[a]: a._events, the pending events of aggregate a
    nextEventId,    \* stands for uuid4: the next fresh event_id
    committed,      \* AbstractMemoryUnitOfWork.committed
    trace,          \* calls made by the current scope, in order
    bodyEnd,        \* how the body of the last scope ended
    outcome,        \* what the last scope exit propagated to its caller
    delivered,      \* every event handed to the bus, with the scope that did it
    raisedLog,      \* raisedLog[id]: the scope in which event id was raised
    failedScopes,   \* scopes whose body raised
    \* event bus (SpecBus; Spec only reads handlers)
    handlers,       \* registry.handlers: dict type -> list of handlers
    registered,     \* every register call so far, in call order
    lastHandle,     \* what the last handle call did
    \* aggregate (SpecAgg)
    aggEvents,      \* the aggregate's _events
    aggHist,        \* history of the raise_event / flush_events calls
    \* event loop running one AsyncHandlersRegistry.handle (SpecLoop)
    ready,          \* the loop's queue of callbacks ready to run, oldest first
    tasks,          \* tasks[i]: the task wrapping the i-th handler's coroutine
    handleTask,     \* the coroutine of handle itself
    \* tracking repository over an in-memory store (SpecRepo)
    store,          \* the wrapped repository's _entities: identity -> object
    heap,           \* the set objects: heap.internal is _tracked
    snapRef,        \* the set object the caller got from the tracked property
    touched,        \* objects passed to add or returned by get
    lastCall,       \* the last repository call and what it returned
    \* construction of a unit of work (SpecCtor)
    ctorPc,         \* "new": the base class's __init__ has not run yet, "built": it has
    ctorHas,        \* hasattr(self, "_repositories")
    ctorRepos,      \* self._repositories, when the attribute exists
    ctorAssigned,   \* the values assigned to attributes so far, in order
    \* in-memory repository (SpecMem)
    memKind,        \* the repository's class
    entities,       \* self._entities, as its values in insertion order
    memModel,       \* per identity: the entity last added and not removed since
    memCall,        \* the last call and what it returned
    pubEvents,      \* pubEvents[a]: the pending events of aggregate a
    published,      \* every event passed to publish_event, in call order
    memNextId,      \* stands for uuid4: the next fresh event_id
    \* comparison of two objects (SpecEq)
    eqV, eqW,       \* the operands
    eqRes,          \* the results of eqV == eqW and eqW == eqV
    \* value object (SpecVo)
    voCls,          \* the instance's class
    voPc,           \* how far the construction has come
    voFields,       \* the instance's attributes
    voComplete,     \* hasattr(self, "_init_complete")
    voBuilt,        \* the attributes as they were when the constructor returned
    voLast,         \* the last attribute write or deletion and how it ended
    \* allocation (SpecAlloc)
    batches,        \* batches[ref]: the batch of that reference
    batchesBefore,  \* the batches before the last call
    allocCalls,     \* number of calls made so far
    allocLast,      \* the last call and what it returned
    \* unit of work of bloom.prajnan (SpecPj)
    pjBackend,      \* "memory" or "sqla" subclass
    pjPc,           \* "idle" or "body" (inside the with block)
    pjBody,         \* calls made by the body of the current scope
    pjCommitted,    \* AbstractMemoryUnitOfWork.committed
    pjHist          \* one record per finished scope, oldest first

uowVars == <<variant, backend, event_bus, pc, scopeNo, repositories, tracked,
             events, nextEventId, committed, trace, bodyEnd, outcome,
             delivered, raisedLog, failedScopes>>
busVars == <<handlers, registered, lastHandle>>
aggVars == <<aggEvents, aggHist>>
loopVars == <<ready, tasks, handleTask>>
repoVars == <<store, heap, snapRef, touched, lastCall>>
ctorVars == <<ctorPc, ctorHas, ctorRepos, ctorAssigned>>
memVars == <<memKind, entities, memModel, memCall, pubEvents, published, memNextId>>
eqVars == <<eqV, eqW, eqRes>>
voVars == <<voCls, voPc, voFields, voComplete, voBuilt, voLast>>
allocVars == <<batches, batchesBefore, allocCalls, allocLast>>
pjVars == <<pjBackend, pjPc, pjBody, pjCommitted, pjHist>>
vars == <<uowVars, busVars, aggVars, loopVars, repoVars, ctorVars,
          memVars, eqVars, voVars, allocVars, pjVars>>
\* what the actions of one specification leave alone
nonUowVars == <<busVars, aggVars, loopVars, repoVars, ctorVars,
                memVars, eqVars, voVars, allocVars, pjVars>>
nonBusVars == <<uowVars, aggVars, loopVars, repoVars, ctorVars,
                memVars, eqVars, voVars, allocVars, pjVars>>
nonAggVars == <<uowVars, busVars, loopVars, repoVars, ctorVars,
                memVars, eqVars, voVars, allocVars, pjVars>>
nonLoopVars == <<uowVars, aggVars, repoVars, ctorVars, registered, lastHandle,
                 memVars, eqVars, voVars, allocVars, pjVars>>
nonRepoVars == <<uowVars, busVars, aggVars, loopVars, ctorVars,
                memVars, eqVars, voVars, allocVars, pjVars>>
nonCtorVars == <<uowVars, busVars, aggVars, loopVars, repoVars,
                memVars, eqVars, voVars, allocVars, pjVars>>
nonMemVars == <<uowVars, busVars, aggVars, loopVars, repoVars, ctorVars,
               eqVars, voVars, allocVars, pjVars>>
nonEqVars == <<uowVars, busVars, aggVars, loopVars, repoVars, ctorVars,
              memVars, voVars, allocVars, pjVars>>
nonVoVars == <<uowVars, busVars, aggVars, loopVars, repoVars, ctorVars,
              memVars, eqVars, allocVars, pjVars>>
nonAllocVars == <<uowVars, busVars, aggVars, loopVars, repoVars, ctorVars,
                 memVars, eqVars, voVars, pjVars>>
nonPjVars == <<uowVars, busVars, aggVars, loopVars, repoVars, ctorVars,
              memVars, eqVars, voVars, allocVars>>

\* ---- helpers ----
Range(s) == {s[i] : i \in 1..Len(s)}
Perms(S) == {s \in [1..Cardinality(S) -> S] : \A i, j \in 1..Cardinality(S) : s[i] = s[j] => i = j}
NoEvent == [event_id |-> 0, entity_id |-> "", type |-> ""]
Entry(op) == [op |-> op, ev |-> NoEvent, h |-> "", ok |-> TRUE]
Ops(tr) == [i \in 1..Len(tr) |-> tr[i].op]
RECURSIVE SelectOps(_, _)
SelectOps(tr, ops) ==
    IF tr = <<>> THEN <<>>
    ELSE IF Head(tr).op \in ops THEN <<Head(tr)>> \o SelectOps(Tail(tr), ops)
    ELSE SelectOps(Tail(tr), ops)
Count(tr, op) == Len(SelectOps(tr, {op}))

\* ---- Event, Aggregate ----
\* Event(entity_id=...): event_id defaults to a fresh uuid4
NewEvent(id, type, entity_id) == [event_id |-> id, entity_id |-> entity_id, type |-> type]

\* Entity.id
EntityId(x) == IF x = "a1b" THEN "a1" ELSE x

\* mutant of raise_event: the event keeps the entity_id it was built with
RaiseKeepsEntityId(buf, a, event) == Append(buf, event)

\* Aggregate.raise_event on the buffer buf of the aggregate a
raise_event(buf, a, event) == Append(buf, [event EXCEPT !.entity_id = EntityId(a)])

\* Aggregate.pending_events: a copy of the buffer
pending_events(buf) == buf

\* mutant of flush_events: the buffer is returned but not cleared
FlushKeepsBuffer(buf) == [ret |-> pending_events(buf), buf |-> buf]

\* Aggregate.flush_events: the value returned and the buffer left behind
flush_events(buf) == [ret |-> pending_events(buf), buf |-> <<>>]


\* ---- event buses ----
\* mutant of register: a handler already in the list is not added again
RegisterOnce(reg, event_type, handler) ==
    IF event_type \notin DOMAIN reg
    THEN reg @@ (event_type :> <<handler>>)
    ELSE IF handler \in Range(reg[event_type]) THEN reg
    ELSE [reg EXCEPT ![event_type] = Append(@, handler)]

\* HandlersRegistry.register / AsyncHandlersRegistry.register
register(reg, event_type, handler) ==
    IF event_type \notin DOMAIN reg
    THEN reg @@ (event_type :> <<handler>>)
    ELSE [reg EXCEPT ![event_type] = Append(@, handler)]

NoCall == [invoked |-> <<>>, logged |-> <<>>, raised |-> FALSE]

\* mutant of SyncLoop: a failing handler does not stop the loop
RECURSIVE SyncLoopGoesOn(_, _, _, _)
SyncLoopGoesOn(hs, i, fails, acc) ==
    IF i > Len(hs)
    THEN [invoked |-> acc, logged |-> <<>>, raised |-> (fails \cap (1..Len(hs))) # {}]
    ELSE SyncLoopGoesOn(hs, i + 1, fails, Append(acc, hs[i]))

\* the loop of HandlersRegistry.handle: handler i raises iff i \in fails
RECURSIVE SyncLoop(_, _, _, _)
SyncLoop(hs, i, fails, acc) ==
    IF i > Len(hs) THEN [invoked |-> acc, logged |-> <<>>, raised |-> FALSE]
    ELSE IF i \in fails THEN [invoked |-> Append(acc, hs[i]), logged |-> <<>>, raised |-> TRUE]
    ELSE SyncLoop(hs, i + 1, fails, Append(acc, hs[i]))

\* HandlersRegistry.handle for an event of class event_class
HandleSync(reg, event_class, fails) ==
    IF event_class \in DOMAIN reg THEN SyncLoop(reg[event_class], 1, fails, <<>>) ELSE NoCall

\* mutant of HandleAsync: gather without return_exceptions, the first failure
\* propagates and nothing is logged
HandleAsyncPropagates(reg, event_class, fails) ==
    IF event_class \in DOMAIN reg
    THEN [invoked |-> reg[event_class], logged |-> <<>>,
          raised |-> (fails \cap (1..Len(reg[event_class]))) # {}]
    ELSE NoCall

\* asyncio.gather(*[handler(event) ...], return_exceptions=True): every handler
\* runs, the result list holds the exception of each one that raised
Gather(hs, fails) == [i \in 1..Len(hs) |-> IF i \in fails THEN "exception" ELSE "none"]

\* the logging loop of AsyncHandlersRegistry.handle: one log record per
\* exception in the result list, naming the handler at that index
RECURSIVE LogLoop(_, _, _, _)
LogLoop(hs, results, idx, acc) ==
    IF idx > Len(results) THEN acc
    ELSE IF results[idx] = "exception"
         THEN LogLoop(hs, results, idx + 1, Append(acc, [idx |-> idx, h |-> hs[idx]]))
    ELSE LogLoop(hs, results, idx + 1, acc)

\* AsyncHandlersRegistry.handle for an event of class event_class
HandleAsync(reg, event_class, fails) ==
    IF event_class \in DOMAIN reg
    THEN LET results == Gather(reg[event_class], fails)
         IN [invoked |-> reg[event_class],
             logged |-> LogLoop(reg[event_class], results, 1, <<>>),
             raised |-> FALSE]
    ELSE NoCall

\* mutant of Handle: the handlers are looked up along the classes of the event,
\* so handlers registered for a base class are called for a subclass's event
HandlePolymorphic(kind, reg, event_class, fails) ==
    LET known == {k \in 1..Len(Mro(event_class)) : Mro(event_class)[k] \in DOMAIN reg}
        cls == IF known = {} THEN event_class
               ELSE Mro(event_class)[CHOOSE k \in known : \A m \in known : k <= m]
    IN IF kind = "sync" THEN HandleSync(reg, cls, fails) ELSE HandleAsync(reg, cls, fails)

\* handle of either bus, by the class of the unit of work or bus
Handle(kind, reg, event_class, fails) ==
    IF kind = "sync" THEN HandleSync(reg, event_class, fails)
    ELSE HandleAsync(reg, event_class, fails)

HandlerCount(reg, event_class) ==
    IF event_class \in DOMAIN reg THEN Len(reg[event_class]) ELSE 0

\* ---- tracking repository ----
\* Entity.__eq__ with Entity.__hash__: entities of one concrete type are equal
\* iff their identities are
EntityEq(x, y) == EntityId(x) = EntityId(y)

\* set.add of a Python set of entities: an element equal to x keeps its place
SetAdd(set, x) == IF \E y \in set : EntityEq(y, x) THEN set ELSE set \cup {x}

\* mutant of TrackAdd: add stores the entity without tracking it
TrackAddForgets(tr, entity) == tr

\* TrackingRepository.add / AsyncTrackingRepository.add: the tracked set after it
TrackAdd(tr, entity) == SetAdd(tr, entity)

\* mutant of TrackGet: whatever the wrapped repository returned is tracked
TrackGetAlways(tr, res) == tr \cup {res}

\* TrackingRepository.get / AsyncTrackingRepository.get: res is what the wrapped
\* repository returned ("None" or an entity); the tracked set after it
TrackGet(tr, res) == IF res # "None" THEN SetAdd(tr, res) ELSE tr

\* mutant of TrackedAfterRemove: the entity removed is not tracked any more
TrackedAfterRemoveDrops(tr, entity_id) == {x \in tr : EntityId(x) # entity_id}

\* TrackingRepository.remove / AsyncTrackingRepository.remove: the tracked set
\* after it; neither touches _tracked
TrackedAfterRemove(tr, entity_id) == tr

\* mutant of TrackList: the entities listed are tracked
TrackListTracks(tr, res) == tr \cup res

\* TrackingRepository.list / AsyncTrackingRepository.list: res is the list the
\* wrapped repository returned; the tracked set after it
TrackList(tr, res) == tr

\* mutant of TrackedProperty: the property hands out the internal set itself
TrackedAlias(h) == [heap |-> h, ref |-> "internal"]

\* TrackingRepository.tracked / AsyncTrackingRepository.tracked: a new set
\* object holding the elements of _tracked; h maps set objects to their
\* elements, ref is the object returned
TrackedProperty(h) == [heap |-> [h EXCEPT !.snap = h.internal], ref |-> "snap"]

\* ---- in-memory repository ----
\* InMemoryRepository._add: self._entities[entity.id] = entity
StoreAdd(st, entity) == [st EXCEPT ![EntityId(entity)] = entity]
\* InMemoryRepository._get: self._entities.get(entity_id)
StoreGet(st, entity_id) == st[entity_id]
\* InMemoryRepository._all: list(self._entities.values())
StoreAll(st) == {st[i] : i \in DOMAIN st} \ {"None"}
\* InMemoryRepository.remove: returns without touching _entities
StoreRemove(st, entity_id) == st

\* ---- bloom.prajnan repositories ----
\* a Python dict keyed by identity, as the sequence of its values in insertion
\* order: the position of the value stored under key k, 0 when k is no key
DictIndex(d, k) ==
    IF \E i \in 1..Len(d) : EntityId(d[i]) = k
    THEN CHOOSE i \in 1..Len(d) : EntityId(d[i]) = k
    ELSE 0

\* mutant of DictSet: every assignment makes a new entry
DictSetAppends(d, entity) == Append(d, entity)

\* d[entity.id] = entity: an existing key keeps its place and gets the new value
DictSet(d, entity) ==
    LET i == DictIndex(d, EntityId(entity))
    IN IF i = 0 THEN Append(d, entity) ELSE [d EXCEPT ![i] = entity]

\* d.get(k)
DictGet(d, k) == IF DictIndex(d, k) = 0 THEN "None" ELSE d[DictIndex(d, k)]

\* d.pop(k, None): the dict afterwards
DictPop(d, k) ==
    LET i == DictIndex(d, k)
    IN IF i = 0 THEN d ELSE SubSeq(d, 1, i - 1) \o SubSeq(d, i + 1, Len(d))

\* list(d.values())
DictValues(d) == d

\* AbstractRepository.add / get / all of bloom.repositories in front of
\* InMemoryRepository._add / _get / _all
MemoryAdd(d, entity) == DictSet(d, entity)
MemoryGet(d, entity_id) == DictGet(d, entity_id)
MemoryAll(d) == DictValues(d)

\* mutant of RepositoryRemove: an absent identity is an error
RepositoryRemoveStrict(kind, d, entity_id) ==
    IF DictIndex(d, entity_id) = 0 THEN [d |-> d, exc |-> "KeyError"]
    ELSE [d |-> DictPop(d, entity_id), exc |-> "none"]

\* remove(entity_id) of the in-memory repository of class kind: the prajnan
\* one pops the key, the ones of bloom.repositories.memory return at once
RepositoryRemove(kind, d, entity_id) ==
    IF kind = "prajnan" THEN [d |-> DictPop(d, entity_id), exc |-> "none"]
    ELSE [d |-> StoreRemove(d, entity_id), exc |-> "none"]

\* add(entity), get(entity_id) and list() / all() of the repository of class kind
RepositoryAdd(kind, d, entity) ==
    IF kind = "prajnan" THEN DictSet(d, entity) ELSE MemoryAdd(d, entity)
RepositoryGet(kind, d, entity_id) ==
    IF kind = "prajnan" THEN DictGet(d, entity_id) ELSE MemoryGet(d, entity_id)
RepositoryList(kind, d) ==
    IF kind = "prajnan" THEN DictValues(d) ELSE MemoryAll(d)

\* EventPublishingRepository._publish_events: the aggregate is flushed and its
\* events go to publish_event one by one; failsAt is the call of publish_event
\* that raises, 0 when none does
PublishEvents(buf, failsAt) ==
    LET flushed == flush_events(buf)
    IN [buf |-> flushed.buf,
        passed |-> IF failsAt = 0 THEN flushed.ret ELSE SubSeq(flushed.ret, 1, failsAt),
        exc |-> IF failsAt = 0 THEN "none" ELSE "Exception"]

\* mutant of PublishingAdd: the events are published and stay pending
PublishingAddKeepsEvents(d, buf, entity, failsAt) ==
    [d |-> DictSet(d, entity), buf |-> buf, passed |-> buf, exc |-> "none"]

\* EventPublishingRepository.add over an InMemoryRepository
PublishingAdd(d, buf, entity, failsAt) ==
    LET p == PublishEvents(buf, failsAt)
    IN [d |-> DictSet(d, entity), buf |-> p.buf, passed |-> p.passed, exc |-> p.exc]

\* ---- bloom.sara entities ----
\* isinstance(x, Entity): the operand "other" is no entity
IsEntity(x) == x.type \in EntityTypes

\* issubclass(t, u)
IsSubclass(t, u) == t = u \/ u \in Bases(t)

\* isinstance(x, t)
IsInstance(x, t) == IsSubclass(x.type, t)

\* mutant of EntityDunderEq: the identities decide alone
EntityDunderEqById(self, other) == IsEntity(other) /\ self.id = other.id

\* Entity.__eq__(self, other)
EntityDunderEq(self, other) ==
    IF ~IsEntity(other) THEN FALSE
    ELSE IsInstance(other, self.type) /\ self.id = other.id

\* Entity.__hash__(self): hash((type(self), self.id))
EntityHash(self) == <<self.type, self.id>>

\* mutant of RichCompareEq: the left operand's __eq__ is always the one called
RichCompareLeftFirst(v, w) == EntityDunderEq(v, w)

\* v == w for an entity v: when type(w) is a proper subclass of type(v) the
\* interpreter calls w.__eq__(v) first, and __eq__ never returns NotImplemented
RichCompareEq(v, w) ==
    IF IsEntity(w) /\ v.type # w.type /\ IsSubclass(w.type, v.type)
    THEN EntityDunderEq(w, v)
    ELSE EntityDunderEq(v, w)

\* ---- bloom.domain value objects ----
\* ValueObject.__setattr__: complete is hasattr(self, "_init_complete")
VoSetAttr(complete, fields, name, value) ==
    IF ~complete THEN [fields |-> [fields EXCEPT ![name] = value], exc |-> "none"]
    ELSE [fields |-> fields, exc |-> "AttributeError"]

\* ValueObject.__delattr__
VoDelAttr(complete, fields, name) == [fields |-> fields, exc |-> "AttributeError"]

\* ValueObject._finalize_init: the attribute _init_complete exists afterwards
FinalizeInit(complete) == TRUE

\* the __eq__ and __hash__ that dataclass(unsafe_hash=True) generates: the
\* tuple of the fields, in the order declared
VoTuple(fields) == <<fields["qty"], fields["name"]>>
VoEq(f, g) == VoTuple(f) = VoTuple(g)
VoHash(fields) == VoTuple(fields)

\* ---- the allocation model of tests/models.py ----
RECURSIVE SumQty(_)
\* sum([line.qty for line in lines])
SumQty(lines) ==
    IF lines = {} THEN 0
    ELSE LET l == CHOOSE x \in lines : TRUE IN l.qty + SumQty(lines \ {l})

\* Batch.available_quantity
AvailableQuantity(b) == b.qty - SumQty(b.lines)

\* Batch.can_allocate
CanAllocate(b, line) == b.sku = line.sku /\ AvailableQuantity(b) >= line.qty

\* mutant of BatchAllocate: the line is taken without asking can_allocate
BatchAllocateUnchecked(b, line) == [b EXCEPT !.lines = @ \cup {line}]

\* Batch.allocate: _batches is a set of order lines, equal lines are one element
BatchAllocate(b, line) ==
    IF CanAllocate(b, line) THEN [b EXCEPT !.lines = @ \cup {line}] ELSE b

\* mutant of BatchDeallocate: a line that is not allocated releases another
\* line of the batch
BatchDeallocateAny(b, line) ==
    IF line \in b.lines THEN [b EXCEPT !.lines = @ \ {line}]
    ELSE IF b.lines = {} THEN b
    ELSE [b EXCEPT !.lines = @ \ {CHOOSE x \in b.lines : TRUE}]

\* Batch.deallocate
BatchDeallocate(b, line) ==
    IF line \in b.lines THEN [b EXCEPT !.lines = @ \ {line}] ELSE b

\* Batch.__gt__; eta None is NoEta
BatchGt(self, other) ==
    IF self.eta = NoEta THEN FALSE
    ELSE IF other.eta = NoEta THEN TRUE
    ELSE self.eta > other.eta

\* x < y between batches: Batch defines no __lt__, the interpreter falls back
\* on the reflected y.__gt__(x)
BatchLt(x, y) == BatchGt(y, x)

RECURSIVE InsertSorted(_, _)
\* x goes in front of the first element it is less than
InsertSorted(sorted, x) ==
    IF sorted = <<>> THEN <<x>>
    ELSE IF BatchLt(x, Head(sorted)) THEN <<x>> \o sorted
    ELSE <<Head(sorted)>> \o InsertSorted(Tail(sorted), x)

RECURSIVE SortedFrom(_, _)
SortedFrom(lst, acc) ==
    IF lst = <<>> THEN acc ELSE SortedFrom(Tail(lst), InsertSorted(acc, Head(lst)))

\* mutant of Sorted: the list is taken as given
SortedAsGiven(lst) == lst

\* sorted(batches): a stable sort, elements that are not less than one another
\* keep the order of the input
Sorted(lst) == SortedFrom(lst, <<>>)

\* next(b for b in lst if b.can_allocate(line)): its position, 0 for StopIteration
FirstAllocatable(lst, line) ==
    IF \E i \in 1..Len(lst) : CanAllocate(lst[i], line)
    THEN CHOOSE i \in 1..Len(lst) :
            /\ CanAllocate(lst[i], line)
            /\ \A j \in 1..(i - 1) : ~CanAllocate(lst[j], line)
    ELSE 0

\* allocate(line, batches): bs maps each ref to its batch, order is the list
\* of refs passed in
AllocateLine(line, bs, order) ==
    LET lst == Sorted([i \in 1..Len(order) |-> bs[order[i]]])
        k == FirstAllocatable(lst, line)
    IN IF k = 0 THEN [bs |-> bs, ret |-> "None", exc |-> "OutOfStockError"]
       ELSE [bs |-> [bs EXCEPT ![lst[k].ref] = BatchAllocate(@, line)],
             ret |-> lst[k].ref, exc |-> "none"]

\* ---- bloom.prajnan unit of work ----
\* mutant of PjExit: a failing commit is not rolled back
PjExitNoRollbackAfterCommit(bk, kind, commitOk, rbOk) ==
    LET first == IF bk = "sqla" THEN <<Entry("remove")>> ELSE <<>>
    IN IF kind = "return"
       THEN [tr |-> first \o <<[Entry("commit") EXCEPT !.ok = commitOk]>>,
             exc |-> IF commitOk THEN "none" ELSE "commit_error"]
       ELSE IF kind = "Exception"
       THEN [tr |-> first \o <<[Entry("rollback") EXCEPT !.ok = rbOk]>>,
             exc |-> IF rbOk THEN "original" ELSE "rollback_error"]
       ELSE [tr |-> first, exc |-> "original"]

\* AbstractUnitOfWork.__call__ of bloom.prajnan after the body has left the
\* with block: commit follows the yield inside the try, an Exception of the
\* body or of commit is rolled back and raised again, anything that is only a
\* BaseException passes through. The finally clause of the SQLAlchemy subclass
\* is nested inside and runs first.
PjExit(bk, kind, commitOk, rbOk) ==
    LET first == IF bk = "sqla" THEN <<Entry("remove")>> ELSE <<>>
        rb == [Entry("rollback") EXCEPT !.ok = rbOk]
    IN IF kind = "return"
       THEN IF commitOk
            THEN [tr |-> first \o <<Entry("commit")>>, exc |-> "none"]
            ELSE [tr |-> first \o <<[Entry("commit") EXCEPT !.ok = FALSE], rb>>,
                  exc |-> IF rbOk THEN "commit_error" ELSE "rollback_error"]
       ELSE IF kind = "Exception"
       THEN [tr |-> first \o <<rb>>,
             exc |-> IF rbOk THEN "original" ELSE "rollback_error"]
       ELSE [tr |-> first, exc |-> "original"]

\* ---- unit of work ----
\* isinstance(entity, domain.Aggregate)
IsAggregate(entity) == entity \in Aggregates

\* mutant of SetAttrRepos: the assignment is stored but nothing is registered
SetAttrNever(repos, value) == repos

\* AbstractUnitOfWork.__setattr__: the repository list after assigning value
SetAttrRepos(repos, value) == IF value \in Repos THEN Append(repos, value) ELSE repos

\* iteration orders of the tracked sets, one per entry of the repository list
RECURSIVE OrdsFor(_)
OrdsFor(repos) ==
    IF repos = <<>> THEN {<<>>}
    ELSE {<<p>> \o rest : p \in Perms(tracked[Head(repos)]), rest \in OrdsFor(Tail(repos))}

\* the inner loop of collect_events over one repository's tracked entities
RECURSIVE CollectEntities(_, _)
CollectEntities(ord, acc) ==
    IF ord = <<>> THEN acc
    ELSE LET entity == Head(ord)
         IN IF IsAggregate(entity)
            THEN LET f == flush_events(acc.evs[entity])
                 IN CollectEntities(Tail(ord),
                        [evs |-> [acc.evs EXCEPT ![entity] = f.buf], ret |-> acc.ret \o f.ret])
            ELSE CollectEntities(Tail(ord), acc)

\* the outer loop of collect_events over self._repositories
RECURSIVE CollectRepos(_, _)
CollectRepos(ords, acc) ==
    IF ords = <<>> THEN acc
    ELSE CollectRepos(Tail(ords), CollectEntities(Head(ords), acc))

\* AbstractUnitOfWork.collect_events / AbstractAsyncUnitOfWork.collect_events:
\* the list returned (ret) and the aggregates' buffers afterwards (evs)
collect_events(ords, evs) == CollectRepos(ords, [evs |-> evs, ret |-> <<>>])

\* the calls one handle(event) makes, as trace entries
HandleEntries(event, r) ==
    <<[op |-> "handle", ev |-> event, h |-> "", ok |-> ~r.raised]>>
    \o [i \in 1..Len(r.invoked) |->
          [op |-> "handler", ev |-> event, h |-> r.invoked[i],
           ok |-> ~(r.raised /\ i = Len(r.invoked))]]
    \o [i \in 1..Len(r.logged) |->
          [op |-> "log", ev |-> event, h |-> r.logged[i].h, ok |-> TRUE]]

\* the loop of _publish_events: failsAt[k] are the handlers that raise for event k
RECURSIVE PublishLoop(_, _, _, _)
PublishLoop(event_list, k, failsAt, acc) ==
    IF k > Len(event_list) THEN acc
    ELSE LET r == Handle(variant, handlers, event_list[k].type, failsAt[k])
             acc2 == [tr |-> acc.tr \o HandleEntries(event_list[k], r), raised |-> r.raised]
         IN IF r.raised THEN acc2 ELSE PublishLoop(event_list, k + 1, failsAt, acc2)

\* mutant of publish_events: the events are published last first
PublishLastFirst(event_list, failsAt) ==
    LET n == Len(event_list)
    IN IF event_bus
       THEN PublishLoop([k \in 1..n |-> event_list[n + 1 - k]], 1,
                        [k \in 1..n |-> failsAt[n + 1 - k]],
                        [tr |-> <<>>, raised |-> FALSE])
       ELSE [tr |-> <<>>, raised |-> FALSE]

\* AbstractUnitOfWork._publish_events / AbstractAsyncUnitOfWork._publish_events
publish_events(event_list, failsAt) ==
    IF event_bus
    THEN PublishLoop(event_list, 1, failsAt, [tr |-> <<>>, raised |-> FALSE])
    ELSE [tr |-> <<>>, raised |-> FALSE]

LongestList(reg) ==
    IF DOMAIN reg = {} THEN 0
    ELSE CHOOSE n \in {Len(reg[t]) : t \in DOMAIN reg} : \A t \in DOMAIN reg : Len(reg[t]) <= n

\* which handlers can raise for each event of the list
FailChoices(event_list) ==
    IF ~event_bus THEN {[k \in 1..Len(event_list) |-> {}]}
    ELSE {f \in [1..Len(event_list) -> SUBSET (1..LongestList(handlers))] :
            \A k \in 1..Len(event_list) :
                f[k] \subseteq 1..HandlerCount(handlers, event_list[k].type)}

\* mutant of ExitElse: events that did not reach a handler go back to their
\* buffers
ExitElsePutsBack(ords, failsAt) ==
    LET c == collect_events(ords, events)
        p == IF c.ret # <<>> THEN publish_events(c.ret, failsAt)
             ELSE [tr |-> <<>>, raised |-> FALSE]
    IN [tr |-> <<Entry("collect")>> \o p.tr,
        evs |-> IF Count(p.tr, "handle") < Len(c.ret) THEN events ELSE c.evs,
        exc |-> IF p.raised THEN "handler_error" ELSE "none"]

\* mutant of ExitElse: the exit commits before it collects
ExitElseCommits(ords, failsAt) ==
    LET c == collect_events(ords, events)
        p == IF c.ret # <<>> THEN publish_events(c.ret, failsAt)
             ELSE [tr |-> <<>>, raised |-> FALSE]
    IN [tr |-> <<Entry("commit"), Entry("collect")>> \o p.tr,
        evs |-> c.evs,
        exc |-> IF p.raised THEN "handler_error" ELSE "none"]

\* mutant of ExitElse: a failing publication is rolled back like a failing body
ExitElseRollsBack(ords, failsAt) ==
    LET c == collect_events(ords, events)
        p == IF c.ret # <<>> THEN publish_events(c.ret, failsAt)
             ELSE [tr |-> <<>>, raised |-> FALSE]
    IN [tr |-> <<Entry("collect")>> \o p.tr
                \o (IF p.raised THEN <<Entry("rollback")>> ELSE <<>>),
        evs |-> c.evs,
        exc |-> IF p.raised THEN "handler_error" ELSE "none"]

\* the else branch of __call__: the body finished without exception
ExitElse(ords, failsAt) ==
    LET c == collect_events(ords, events)
        p == IF c.ret # <<>> THEN publish_events(c.ret, failsAt)
             ELSE [tr |-> <<>>, raised |-> FALSE]
    IN [tr |-> <<Entry("collect")>> \o p.tr,
        evs |-> c.evs,
        exc |-> IF p.raised THEN "handler_error" ELSE "none"]

\* mutant of ExitExcept: the exception is re-raised without rollback
ExitExceptNoRollback(kind, rbOk) == [tr |-> <<>>, evs |-> events, exc |-> "original"]

\* mutant of ExitExcept: the exception is rolled back but not raised again
ExitExceptSwallows(kind, rbOk) ==
    IF kind = "Exception"
    THEN [tr |-> <<[Entry("rollback") EXCEPT !.ok = rbOk]>>,
          evs |-> events,
          exc |-> IF rbOk THEN "none" ELSE "rollback_error"]
    ELSE [tr |-> <<>>, evs |-> events, exc |-> "original"]

\* the except branch of __call__: an Exception is rolled back and re-raised;
\* anything else that is only a BaseException passes through
ExitExcept(kind, rbOk) ==
    IF kind = "Exception"
    THEN [tr |-> <<[Entry("rollback") EXCEPT !.ok = rbOk]>>,
          evs |-> events,
          exc |-> IF rbOk THEN "original" ELSE "rollback_error"]
    ELSE [tr |-> <<>>, evs |-> events, exc |-> "original"]

\* mutant of SqlaFinally: the session is released on the success path only
SqlaReleaseOnSuccess(kind) == IF kind = "return" THEN <<Entry("remove")>> ELSE <<>>

\* the finally clause of AbstractSqlaUnitOfWork.__call__, which runs when the
\* body leaves the with block, before the base class's exit handling
SqlaFinally(kind) == <<Entry("remove")>>

\* the whole scope exit; kind is "return" or what the body raised
ScopeExit(kind, ords, failsAt, rbOk) ==
    LET inner == IF kind = "return" THEN ExitElse(ords, failsAt) ELSE ExitExcept(kind, rbOk)
        first == IF backend = "sqla" THEN SqlaFinally(kind) ELSE <<>>
    IN [inner EXCEPT !.tr = first \o @]

\* ---- Spec: scopes on one unit of work ----
\* the bus handed to the unit of work's constructor: two handlers for Allocate
\* events, none for Deallocate events
UowRegistry == ("Allocate" :> <<"h1", "h2">>)

NoHandle == [called |-> FALSE, type |-> "", fails |-> {}, at |-> 0, res |-> NoCall]
AggStart == [raised |-> <<>>, flat |-> <<>>, last |-> "none", ret |-> <<>>,
             dirty |-> FALSE, wasDirty |-> FALSE]

\* a unit of work as constructed, before any scope
InitUow ==
    /\ pc = "idle"
    /\ scopeNo = 0
    /\ repositories = <<"r1">>
    /\ tracked = [r \in Repos |-> {}]
    /\ events = [a \in Aggregates |-> <<>>]
    /\ nextEventId = 1
    /\ committed = FALSE
    /\ trace = <<>>
    /\ bodyEnd = "none"
    /\ outcome = "none"
    /\ delivered = <<>>
    /\ raisedLog = <<>>
    /\ failedScopes = {}

InitAgg ==
    /\ aggEvents = <<>>
    /\ aggHist = AggStart

\* no handle call is running on the loop
NoHandleTask == [st |-> "new", type |-> "", nfinished |-> 0, outer |-> "pending",
                 logged |-> <<>>]

InitLoop ==
    /\ ready = <<>>
    /\ tasks = <<>>
    /\ handleTask = NoHandleTask

\* a tracking repository as constructed, over an empty store
NoRepoCall == [op |-> "none", arg |-> "None", ret |-> {}, exc |-> "none", delegated |-> 0]

InitRepo ==
    /\ store = [i \in Identities |-> "None"]
    /\ heap = [internal |-> {}, snap |-> {}]
    /\ snapRef = "none"
    /\ touched = {}
    /\ lastCall = NoRepoCall

\* an object whose __init__ has not run: no attribute is set
InitCtor ==
    /\ ctorPc = "new"
    /\ ctorHas = FALSE
    /\ ctorRepos = <<>>
    /\ ctorAssigned = <<>>

\* an empty in-memory repository and aggregates without events
NoMemCall == [op |-> "none", via |-> "repo", arg |-> "None", ret |-> <<>>,
              exc |-> "none", pre |-> <<>>, pending |-> <<>>, passed |-> <<>>]

InitMem ==
    /\ memKind = "prajnan"
    /\ entities = <<>>
    /\ memModel = [i \in Identities |-> "None"]
    /\ memCall = NoMemCall
    /\ pubEvents = [a \in Objects |-> <<>>]
    /\ published = <<>>
    /\ memNextId = 1

\* nothing has been compared
NoCompare == [done |-> FALSE, vw |-> FALSE, wv |-> FALSE, samehash |-> FALSE]

InitEq ==
    /\ eqV = [type |-> "Entity", id |-> "i1"]
    /\ eqW = [type |-> "Entity", id |-> "i1"]
    /\ eqRes = NoCompare

\* a value object whose constructor has not started
NoVoCall == [op |-> "none", phase |-> "new", name |-> "", exc |-> "none",
             pre |-> [a \in VoAttrs |-> Unset]]

InitVo ==
    /\ voCls = "Data"
    /\ voPc = "new"
    /\ voFields = [a \in VoAttrs |-> Unset]
    /\ voComplete = FALSE
    /\ voBuilt = [a \in VoAttrs |-> Unset]
    /\ voLast = NoVoCall

\* Batch.__init__: nothing is allocated
NewBatch(ref, sku, qty, eta) == [ref |-> ref, sku |-> sku, qty |-> qty, eta |-> eta, lines |-> {}]
NoAllocCall == [op |-> "none", line |-> [orderid |-> "", sku |-> "", qty |-> 0],
                ref |-> "", order |-> <<>>, ret |-> "None", exc |-> "none"]

InitAlloc ==
    /\ batches = [r \in BatchRefs |-> NewBatch(r, "s1", 1, NoEta)]
    /\ batchesBefore = batches
    /\ allocCalls = 0
    /\ allocLast = NoAllocCall

\* a unit of work of bloom.prajnan as constructed
InitPj ==
    /\ pjBackend = "memory"
    /\ pjPc = "idle"
    /\ pjBody = <<>>
    /\ pjCommitted = FALSE
    /\ pjHist = <<>>

Init ==
    /\ variant \in {"sync", "async"}
    /\ backend \in {"memory", "sqla"}
    /\ event_bus \in BOOLEAN
    /\ InitUow
    /\ InitPj
    /\ handlers = UowRegistry
    /\ registered = <<>>
    /\ lastHandle = NoHandle
    /\ InitAgg
    /\ InitLoop
    /\ InitRepo
    /\ InitCtor
    /\ InitMem
    /\ InitEq
    /\ InitVo
    /\ InitAlloc

\* with uow(): the scope is entered (the SQLAlchemy variant takes a session)
Enter ==
    /\ pc = "idle"
    /\ scopeNo < MaxScopes
    /\ pc' = "body"
    /\ scopeNo' = scopeNo + 1
    /\ trace' = IF backend = "sqla" THEN <<Entry("session")>> ELSE <<>>
    /\ bodyEnd' = "none"
    /\ outcome' = "none"
    /\ UNCHANGED <<variant, backend, event_bus, repositories, tracked, events,
                   nextEventId, committed, delivered, raisedLog, failedScopes>>
    /\ UNCHANGED nonUowVars

\* body: repo.add(entity)
Add(r, entity) ==
    /\ pc = "body"
    /\ entity \in Holds(r)
    /\ tracked' = [tracked EXCEPT ![r] = TrackAdd(@, entity)]
    /\ UNCHANGED <<variant, backend, event_bus, pc, scopeNo, repositories, events,
                   nextEventId, committed, trace, bodyEnd, outcome, delivered,
                   raisedLog, failedScopes>>
    /\ UNCHANGED nonUowVars

\* body: repo.get(entity.id); the wrapped repository holds the entity or not
Get(r, entity) ==
    /\ pc = "body"
    /\ entity \in Holds(r)
    /\ \E res \in {"None", entity} :
          tracked' = [tracked EXCEPT ![r] = TrackGet(@, res)]
    /\ UNCHANGED <<variant, backend, event_bus, pc, scopeNo, repositories, events,
                   nextEventId, committed, trace, bodyEnd, outcome, delivered,
                   raisedLog, failedScopes>>
    /\ UNCHANGED nonUowVars

\* body: repo.remove(entity.id), whether it returns (TrackingRepository) or
\* raises a RecursionError that the body handles (AsyncTrackingRepository)
Remove(r, entity) ==
    /\ pc = "body"
    /\ entity \in Holds(r)
    /\ tracked' = [tracked EXCEPT ![r] = TrackedAfterRemove(@, EntityId(entity))]
    /\ UNCHANGED <<variant, backend, event_bus, pc, scopeNo, repositories, events,
                   nextEventId, committed, trace, bodyEnd, outcome, delivered,
                   raisedLog, failedScopes>>
    /\ UNCHANGED nonUowVars

\* body: a.raise_event(SomeEvent(entity_id=supplied))
RaiseEvent(a, type, supplied) ==
    /\ pc = "body"
    /\ nextEventId <= MaxEvents
    /\ events' = [events EXCEPT ![a] = raise_event(@, a, NewEvent(nextEventId, type, supplied))]
    /\ nextEventId' = nextEventId + 1
    /\ raisedLog' = Append(raisedLog, scopeNo)
    /\ UNCHANGED <<variant, backend, event_bus, pc, scopeNo, repositories, tracked,
                   committed, trace, bodyEnd, outcome, delivered, failedScopes>>
    /\ UNCHANGED nonUowVars

\* body: uow.attr = value
SetAttr(value) ==
    /\ pc = "body"
    /\ Len(repositories) < MaxRepos
    /\ repositories' = SetAttrRepos(repositories, value)
    /\ UNCHANGED <<variant, backend, event_bus, pc, scopeNo, tracked, events,
                   nextEventId, committed, trace, bodyEnd, outcome, delivered,
                   raisedLog, failedScopes>>
    /\ UNCHANGED nonUowVars

\* body: uow.commit() returns
Commit ==
    /\ pc = "body"
    /\ Count(trace, "commit") < MaxCommits
    /\ trace' = Append(trace, Entry("commit"))
    /\ committed' = IF backend = "memory" THEN TRUE ELSE committed
    /\ UNCHANGED <<variant, backend, event_bus, pc, scopeNo, repositories, tracked,
                   events, nextEventId, bodyEnd, outcome, delivered, raisedLog,
                   failedScopes>>
    /\ UNCHANGED nonUowVars

\* body: uow.collect_events() called by the body itself
CollectInBody ==
    /\ pc = "body"
    /\ \E ords \in OrdsFor(repositories) :
          events' = collect_events(ords, events).evs
    /\ UNCHANGED <<variant, backend, event_bus, pc, scopeNo, repositories, tracked,
                   nextEventId, committed, trace, bodyEnd, outcome, delivered,
                   raisedLog, failedScopes>>
    /\ UNCHANGED nonUowVars

\* the events the entries of tr handed to the bus
Handed(tr) ==
    LET hs == SelectOps(tr, {"handle"})
    IN [i \in 1..Len(hs) |-> [ev |-> hs[i].ev, scope |-> scopeNo]]

\* the with block is left: pre is the trace of the body, kind how it ended
Leave(pre, kind) ==
    /\ \E ords \in (IF kind = "return" THEN OrdsFor(repositories) ELSE {<<>>}),
          rbOk \in (IF kind = "Exception" /\ backend = "sqla" THEN BOOLEAN ELSE {TRUE}) :
          \E failsAt \in (IF kind = "return"
                          THEN FailChoices(collect_events(ords, events).ret)
                          ELSE {<<>>}) :
             LET x == ScopeExit(kind, ords, failsAt, rbOk)
             IN /\ trace' = pre \o <<Entry("body_end")>> \o x.tr
                /\ events' = x.evs
                /\ outcome' = x.exc
                /\ delivered' = delivered \o Handed(x.tr)
    /\ bodyEnd' = kind
    /\ failedScopes' = IF kind = "return" THEN failedScopes ELSE failedScopes \cup {scopeNo}
    /\ pc' = "idle"
    /\ UNCHANGED <<variant, backend, event_bus, scopeNo, repositories, tracked,
                   nextEventId, committed, raisedLog>>
    /\ UNCHANGED nonUowVars

\* the body runs to its end
BodyReturn ==
    /\ pc = "body"
    /\ Leave(trace, "return")

\* the body raises
BodyRaise(kind) ==
    /\ pc = "body"
    /\ Leave(trace, kind)

\* body: uow.commit() raises (the session's commit fails)
CommitRaises ==
    /\ pc = "body"
    /\ backend = "sqla"
    /\ Count(trace, "commit") < MaxCommits
    /\ Leave(Append(trace, [Entry("commit") EXCEPT !.ok = FALSE]), "Exception")

Next ==
    \/ Enter
    \/ \E r \in Repos, entity \in Entities : Add(r, entity)
    \/ \E r \in Repos, entity \in Entities : Get(r, entity)
    \/ \E r \in Repos, entity \in Entities : Remove(r, entity)
    \/ \E a \in Aggregates, type \in UowEventTypes, supplied \in Aggregates : RaiseEvent(a, type, supplied)
    \/ \E value \in Repos \cup {"other"} : SetAttr(value)
    \/ Commit
    \/ CollectInBody
    \/ BodyReturn
    \/ \E kind \in ExcKinds : BodyRaise(kind)
    \/ CommitRaises

Spec == Init /\ [][Next]_vars

\* ---- SpecBus: one event bus ----
InitBus ==
    /\ variant \in {"sync", "async"}
    /\ backend = "memory"
    /\ event_bus = TRUE
    /\ InitUow
    /\ InitPj
    /\ handlers = <<>>
    /\ registered = <<>>
    /\ lastHandle = NoHandle
    /\ InitAgg
    /\ InitLoop
    /\ InitRepo
    /\ InitCtor
    /\ InitMem
    /\ InitEq
    /\ InitVo
    /\ InitAlloc

\* bus.register(event_type, handler)
Register(event_type, handler) ==
    /\ Len(registered) < MaxHandlers
    /\ handlers' = register(handlers, event_type, handler)
    /\ registered' = Append(registered, [type |-> event_type, h |-> handler])
    /\ UNCHANGED <<lastHandle, nonBusVars>>

\* bus.handle(event) for an event of class event_class; the handlers at the
\* positions in fails raise
BusHandle(event_class, fails) ==
    /\ fails \subseteq 1..HandlerCount(handlers, event_class)
    /\ lastHandle' = [called |-> TRUE, type |-> event_class, fails |-> fails,
                      at |-> Len(registered),
                      res |-> Handle(variant, handlers, event_class, fails)]
    /\ UNCHANGED <<handlers, registered, nonBusVars>>

NextBus ==
    \/ \E event_type \in EventTypes, handler \in HandlerNames : Register(event_type, handler)
    \/ \E event_class \in EventTypes, fails \in SUBSET (1..MaxHandlers) : BusHandle(event_class, fails)

SpecBus == InitBus /\ [][NextBus]_vars

\* ---- SpecAgg: one aggregate ----
TheAggregate == "a1"

InitAggOnly ==
    /\ variant = "sync"
    /\ backend = "memory"
    /\ event_bus = FALSE
    /\ InitUow
    /\ InitPj
    /\ handlers = <<>>
    /\ registered = <<>>
    /\ lastHandle = NoHandle
    /\ InitAgg
    /\ InitLoop
    /\ InitRepo
    /\ InitCtor
    /\ InitMem
    /\ InitEq
    /\ InitVo
    /\ InitAlloc

\* aggregate.raise_event(SomeEvent(entity_id=supplied))
AggRaise(type, supplied) ==
    /\ Len(aggHist.raised) < MaxAggEvents
    /\ LET event == NewEvent(Len(aggHist.raised) + 1, type, supplied)
           buf == raise_event(aggEvents, TheAggregate, event)
       IN /\ aggEvents' = buf
          /\ aggHist' = [aggHist EXCEPT !.raised = Append(@, buf[Len(buf)]),
                                        !.last = "raise",
                                        !.dirty = TRUE]
    /\ UNCHANGED nonAggVars

\* aggregate.flush_events()
AggFlush ==
    /\ LET f == flush_events(aggEvents)
       IN /\ aggEvents' = f.buf
          /\ aggHist' = [aggHist EXCEPT !.flat = @ \o f.ret,
                                        !.ret = f.ret,
                                        !.last = "flush",
                                        !.wasDirty = aggHist.dirty,
                                        !.dirty = FALSE]
    /\ UNCHANGED nonAggVars

NextAgg ==
    \/ \E type \in EventTypes, supplied \in Aggregates : AggRaise(type, supplied)
    \/ AggFlush

SpecAgg == InitAggOnly /\ [][NextAgg]_vars

\* ---- SpecLoop: one AsyncHandlersRegistry.handle call on the asyncio loop ----
\* entries of the loop's ready queue
StepOf(i) == [kind |-> "step", i |-> i]
DoneCallback(i) == [kind |-> "done", i |-> i]
WakeHandle == [kind |-> "handle", i |-> 0]

\* asyncio.gather(*[handler(event) for handler in ...]): the coroutine of each
\* handler is created and wrapped in a task; creating a task schedules its
\* first step on the loop, in the order of the list
GatherSchedule(hs) == [i \in 1..Len(hs) |-> StepOf(i)]
GatherTasks(hs) == [i \in 1..Len(hs) |-> [st |-> "pending", ran |-> 0, res |-> "none"]]

\* mutant of GatherDone: the join ends with the first handler that finishes
GatherDoneAny(nfinished, nfuts) == nfinished >= 1

\* gather's done callback: the outer future completes when every child has
\* finished (return_exceptions=True: whether it returned or raised)
GatherDone(nfinished, nfuts) == nfinished = nfuts

\* the registries of SpecLoop: n handlers for Allocate events
LoopRegistry(n) ==
    IF n = 0 THEN <<>>
    ELSE ("Allocate" :> [i \in 1..n |-> IF i = 1 THEN "h1" ELSE "h2"])

InitLoopOnly ==
    /\ variant = "async"
    /\ backend = "memory"
    /\ event_bus = TRUE
    /\ InitUow
    /\ InitPj
    /\ \E n \in 0..MaxTasks : handlers = LoopRegistry(n)
    /\ registered = <<>>
    /\ lastHandle = NoHandle
    /\ InitAgg
    /\ InitLoop
    /\ InitRepo
    /\ InitCtor
    /\ InitMem
    /\ InitEq
    /\ InitVo
    /\ InitAlloc

\* await bus.handle(event) starts: lookup by type(event), then gather
LoopHandleStart(event_class) ==
    /\ handleTask.st = "new"
    /\ IF event_class \in DOMAIN handlers
       THEN /\ tasks' = GatherTasks(handlers[event_class])
            /\ ready' = ready \o GatherSchedule(handlers[event_class])
            /\ handleTask' = [handleTask EXCEPT !.st = "awaiting", !.type = event_class]
       ELSE /\ handleTask' = [handleTask EXCEPT !.st = "returned", !.type = event_class]
            /\ UNCHANGED <<ready, tasks>>
    /\ UNCHANGED <<handlers, nonLoopVars>>

\* the loop runs the step of a handler's task that heads the ready queue: the
\* coroutine runs to its next suspension point or to its end
\*   "yield"      await asyncio.sleep(0): the task reschedules itself
\*   "wait"       await on a pending future (a timer, i/o): resumed by LoopWake
\*   "return", "raise"  the coroutine ends; the task's done callbacks are scheduled
LoopRunStep(how) ==
    /\ ready # <<>>
    /\ Head(ready).kind = "step"
    /\ LET i == Head(ready).i
       IN /\ how \in {"yield", "wait"} => tasks[i].ran < MaxSuspends
          /\ tasks' = [tasks EXCEPT ![i] =
                [st |-> CASE how = "yield" -> "queued"
                          [] how = "wait" -> "waiting"
                          [] OTHER -> "done",
                 ran |-> @.ran + 1,
                 res |-> IF how = "raise" THEN "exception" ELSE "none"]]
          /\ ready' = Tail(ready) \o
                (CASE how = "yield" -> <<StepOf(i)>>
                   [] how = "wait" -> <<>>
                   [] OTHER -> <<DoneCallback(i)>>)
    /\ UNCHANGED <<handleTask, handlers, nonLoopVars>>

\* the future a suspended handler waits for completes: its wakeup is scheduled
LoopWake(i) ==
    /\ i \in DOMAIN tasks
    /\ tasks[i].st = "waiting"
    /\ tasks' = [tasks EXCEPT ![i].st = "queued"]
    /\ ready' = Append(ready, StepOf(i))
    /\ UNCHANGED <<handleTask, handlers, nonLoopVars>>

\* the loop runs gather's done callback for a finished child: nothing when the
\* outer future is already done, else the child is counted and the outer
\* future completes with the last one, which schedules handle's wakeup
LoopRunDone ==
    /\ ready # <<>>
    /\ Head(ready).kind = "done"
    /\ IF handleTask.outer = "done"
       THEN /\ ready' = Tail(ready)
            /\ UNCHANGED handleTask
       ELSE LET n == handleTask.nfinished + 1
            IN IF GatherDone(n, Len(tasks))
               THEN /\ handleTask' = [handleTask EXCEPT !.nfinished = n, !.outer = "done"]
                    /\ ready' = Append(Tail(ready), WakeHandle)
               ELSE /\ handleTask' = [handleTask EXCEPT !.nfinished = n]
                    /\ ready' = Tail(ready)
    /\ UNCHANGED <<tasks, handlers, nonLoopVars>>

\* the loop resumes handle: the await returns the result list, the failures
\* are logged and handle returns
LoopResumeHandle ==
    /\ ready # <<>>
    /\ Head(ready).kind = "handle"
    /\ ready' = Tail(ready)
    /\ LET hs == handlers[handleTask.type]
           results == [i \in 1..Len(tasks) |-> tasks[i].res]
       IN handleTask' = [handleTask EXCEPT !.st = "returned",
                                           !.logged = LogLoop(hs, results, 1, <<>>)]
    /\ UNCHANGED <<tasks, handlers, nonLoopVars>>

NextLoop ==
    \/ \E event_class \in EventTypes : LoopHandleStart(event_class)
    \/ \E how \in {"yield", "wait", "return", "raise"} : LoopRunStep(how)
    \/ \E i \in 1..MaxTasks : LoopWake(i)
    \/ LoopRunDone
    \/ LoopResumeHandle

SpecLoop == InitLoopOnly /\ [][NextLoop]_vars

\* TrackingRepository.remove delegates to the wrapped repository;
\* AsyncTrackingRepository.remove awaits itself and ends in a RecursionError
\* without reaching the wrapped repository; delegated counts the calls of the
\* wrapped repository's remove
TrackRemove(kind, st, entity_id) ==
    IF kind = "sync"
    THEN [st |-> StoreRemove(st, entity_id), exc |-> "none", delegated |-> 1]
    ELSE [st |-> st, exc |-> "RecursionError", delegated |-> 0]

\* ---- SpecRepo: one tracking repository over an in-memory repository ----
\* what the wrapped repository can hold when the tracking repository is built
\* around it: under each identity nothing or an object of that identity
Stores == {st \in [Identities -> Objects \cup {"None"}] :
             \A i \in Identities : st[i] # "None" => EntityId(st[i]) = i}

InitRepoOnly ==
    /\ variant \in {"sync", "async"}
    /\ backend = "memory"
    /\ event_bus = FALSE
    /\ InitUow
    /\ InitPj
    /\ handlers = <<>>
    /\ registered = <<>>
    /\ lastHandle = NoHandle
    /\ InitAgg
    /\ InitLoop
    /\ store \in Stores
    /\ heap = [internal |-> {}, snap |-> {}]
    /\ snapRef = "none"
    /\ touched = {}
    /\ lastCall = NoRepoCall
    /\ InitCtor
    /\ InitMem
    /\ InitEq
    /\ InitVo
    /\ InitAlloc

\* repo.add(entity)
RepoAdd(entity) ==
    /\ heap' = [heap EXCEPT !.internal = TrackAdd(@, entity)]
    /\ store' = StoreAdd(store, entity)
    /\ touched' = touched \cup {entity}
    /\ lastCall' = [op |-> "add", arg |-> entity, ret |-> {}, exc |-> "none", delegated |-> 0]
    /\ UNCHANGED <<snapRef, nonRepoVars>>

\* repo.get(entity_id)
RepoGet(entity_id) ==
    /\ LET res == StoreGet(store, entity_id)
       IN /\ heap' = [heap EXCEPT !.internal = TrackGet(@, res)]
          /\ touched' = IF res # "None" THEN touched \cup {res} ELSE touched
          /\ lastCall' = [op |-> "get", arg |-> entity_id, ret |-> {res}, exc |-> "none", delegated |-> 0]
    /\ UNCHANGED <<store, snapRef, nonRepoVars>>

\* repo.remove(entity_id)
RepoRemove(entity_id) ==
    /\ LET r == TrackRemove(variant, store, entity_id)
       IN /\ store' = r.st
          /\ lastCall' = [op |-> "remove", arg |-> entity_id, ret |-> {}, exc |-> r.exc,
                           delegated |-> r.delegated]
    /\ UNCHANGED <<heap, snapRef, touched, nonRepoVars>>

\* repo.list()
RepoList ==
    /\ LET res == StoreAll(store)
       IN /\ heap' = [heap EXCEPT !.internal = TrackList(@, res)]
          /\ lastCall' = [op |-> "list", arg |-> "None", ret |-> res, exc |-> "none", delegated |-> 0]
    /\ UNCHANGED <<store, snapRef, touched, nonRepoVars>>

\* s = repo.tracked: the caller keeps the set it was given
RepoTracked ==
    /\ LET t == TrackedProperty(heap)
       IN /\ heap' = t.heap
          /\ snapRef' = t.ref
          /\ lastCall' = [op |-> "tracked", arg |-> "None", ret |-> t.heap[t.ref], exc |-> "none",
                           delegated |-> 0]
    /\ UNCHANGED <<store, touched, nonRepoVars>>

\* the caller changes the set it was given: s.add(x) or s.discard(x)
SnapshotUpdate(how, x) ==
    /\ snapRef # "none"
    /\ heap' = [heap EXCEPT ![snapRef] = IF how = "set_add" THEN SetAdd(@, x) ELSE @ \ {x}]
    /\ lastCall' = [op |-> how, arg |-> x, ret |-> {}, exc |-> "none", delegated |-> 0]
    /\ UNCHANGED <<store, snapRef, touched, nonRepoVars>>

NextRepo ==
    \/ \E entity \in Objects : RepoAdd(entity)
    \/ \E entity_id \in Identities : RepoGet(entity_id)
    \/ \E entity_id \in Identities : RepoRemove(entity_id)
    \/ RepoList
    \/ RepoTracked
    \/ \E how \in {"set_add", "set_discard"}, x \in Objects : SnapshotUpdate(how, x)

SpecRepo == InitRepoOnly /\ [][NextRepo]_vars

\* ---- SpecCtor: a unit of work is constructed ----
\* the constructor of a subclass assigns attributes and calls the base class's
\* __init__, in an order of its choosing
InitCtorOnly ==
    /\ variant \in {"sync", "async"}
    /\ backend \in {"memory", "sqla"}
    /\ event_bus \in BOOLEAN
    /\ InitUow
    /\ InitPj
    /\ handlers = <<>>
    /\ registered = <<>>
    /\ lastHandle = NoHandle
    /\ InitAgg
    /\ InitLoop
    /\ InitRepo
    /\ InitCtor
    /\ InitMem
    /\ InitEq
    /\ InitVo
    /\ InitAlloc

\* AbstractUnitOfWork.__init__: self._event_bus = event_bus and
\* self._repositories = [], both through __setattr__, neither a repository
UowInit ==
    /\ ctorPc = "new"
    /\ ctorPc' = "built"
    /\ ctorHas' = TRUE
    /\ ctorRepos' = <<>>
    /\ UNCHANGED <<ctorAssigned, nonCtorVars>>

\* self.attr = value through __setattr__: the list is created when the
\* attribute _repositories does not exist yet
CtorSetAttr(value) ==
    /\ Len(ctorAssigned) < MaxAssigns
    /\ ctorAssigned' = Append(ctorAssigned, value)
    /\ ctorRepos' = SetAttrRepos(IF ctorHas THEN ctorRepos ELSE <<>>, value)
    /\ ctorHas' = (ctorHas \/ value \in Repos)
    /\ UNCHANGED <<ctorPc, nonCtorVars>>

NextCtor ==
    \/ UowInit
    \/ \E value \in Repos \cup {"other"} : CtorSetAttr(value)

SpecCtor == InitCtorOnly /\ [][NextCtor]_vars

\* ---- SpecMem: one in-memory repository ----
\* the classes: bloom.prajnan's InMemoryRepository, alone or behind an
\* EventPublishingRepository, and bloom.repositories.memory's two

InitMemOnly ==
    /\ variant = "sync"
    /\ backend = "memory"
    /\ event_bus = FALSE
    /\ InitUow
    /\ InitPj
    /\ handlers = <<>>
    /\ registered = <<>>
    /\ lastHandle = NoHandle
    /\ InitAgg
    /\ InitLoop
    /\ InitRepo
    /\ InitCtor
    /\ memKind \in MemKinds
    /\ entities = <<>>
    /\ memModel = [i \in Identities |-> "None"]
    /\ memCall = NoMemCall
    /\ pubEvents = [a \in Objects |-> <<>>]
    /\ published = <<>>
    /\ memNextId = 1
    /\ InitEq
    /\ InitVo
    /\ InitAlloc

\* via = "publishing": the call goes through an EventPublishingRepository
Vias == IF memKind = "prajnan" THEN {"repo", "publishing"} ELSE {"repo"}

\* repo.add(entity); through the publishing repository failsAt is the call of
\* publish_event that raises
MemAdd(via, entity, failsAt) ==
    /\ via \in Vias
    /\ failsAt \in 0..(IF via = "publishing" THEN Len(pubEvents[entity]) ELSE 0)
    /\ LET r == IF via = "publishing"
                THEN PublishingAdd(entities, pubEvents[entity], entity, failsAt)
                ELSE [d |-> RepositoryAdd(memKind, entities, entity),
                      buf |-> pubEvents[entity], passed |-> <<>>, exc |-> "none"]
       IN /\ entities' = r.d
          /\ pubEvents' = [pubEvents EXCEPT ![entity] = r.buf]
          /\ published' = published \o r.passed
          /\ memCall' = [op |-> "add", via |-> via, arg |-> entity, ret |-> <<>>,
                         exc |-> r.exc, pre |-> entities,
                         pending |-> pubEvents[entity], passed |-> r.passed]
    /\ memModel' = [memModel EXCEPT ![EntityId(entity)] = entity]
    /\ UNCHANGED <<memKind, memNextId, nonMemVars>>

\* repo.get(entity_id)
MemGet(via, entity_id) ==
    /\ via \in Vias
    /\ memCall' = [op |-> "get", via |-> via, arg |-> entity_id,
                   ret |-> <<RepositoryGet(memKind, entities, entity_id)>>,
                   exc |-> "none", pre |-> entities, pending |-> <<>>, passed |-> <<>>]
    /\ UNCHANGED <<memKind, entities, memModel, pubEvents, published, memNextId, nonMemVars>>

\* repo.remove(entity_id)
MemRemove(via, entity_id) ==
    /\ via \in Vias
    /\ LET r == RepositoryRemove(memKind, entities, entity_id)
       IN /\ entities' = r.d
          /\ memCall' = [op |-> "remove", via |-> via, arg |-> entity_id, ret |-> <<>>,
                         exc |-> r.exc, pre |-> entities, pending |-> <<>>, passed |-> <<>>]
    /\ memModel' = [memModel EXCEPT ![entity_id] = "None"]
    /\ UNCHANGED <<memKind, pubEvents, published, memNextId, nonMemVars>>

\* repo.list() (repo.all() in bloom.repositories)
MemList(via) ==
    /\ via \in Vias
    /\ memCall' = [op |-> "list", via |-> via, arg |-> "None",
                   ret |-> RepositoryList(memKind, entities),
                   exc |-> "none", pre |-> entities, pending |-> <<>>, passed |-> <<>>]
    /\ UNCHANGED <<memKind, entities, memModel, pubEvents, published, memNextId, nonMemVars>>

\* aggregate.raise_event(event) on an aggregate of bloom.sara
MemRaise(a, type) ==
    /\ memKind = "prajnan"
    /\ memNextId <= MaxPubEvents
    /\ pubEvents' = [pubEvents EXCEPT ![a] = raise_event(@, a, NewEvent(memNextId, type, EntityId(a)))]
    /\ memNextId' = memNextId + 1
    /\ memCall' = [op |-> "raise", via |-> "repo", arg |-> a, ret |-> <<>>,
                   exc |-> "none", pre |-> entities, pending |-> <<>>, passed |-> <<>>]
    /\ UNCHANGED <<memKind, entities, memModel, published, nonMemVars>>

NextMem ==
    \/ \E via \in {"repo", "publishing"}, entity \in Objects, failsAt \in 0..MaxPubEvents :
          MemAdd(via, entity, failsAt)
    \/ \E via \in {"repo", "publishing"}, entity_id \in Identities : MemGet(via, entity_id)
    \/ \E via \in {"repo", "publishing"}, entity_id \in Identities : MemRemove(via, entity_id)
    \/ \E via \in {"repo", "publishing"} : MemList(via)
    \/ \E a \in Objects, type \in UowEventTypes : MemRaise(a, type)

SpecMem == InitMemOnly /\ [][NextMem]_vars

\* ---- SpecEq: two objects are compared ----
EntityInstances == [type : EntityTypes, id : EntityIdValues]
OtherOperands == {[type |-> "other", id |-> i] : i \in EntityIdValues}

InitEqOnly ==
    /\ variant = "sync"
    /\ backend = "memory"
    /\ event_bus = FALSE
    /\ InitUow
    /\ InitPj
    /\ handlers = <<>>
    /\ registered = <<>>
    /\ lastHandle = NoHandle
    /\ InitAgg
    /\ InitLoop
    /\ InitRepo
    /\ InitCtor
    /\ InitMem
    /\ eqV \in EntityInstances
    /\ eqW \in EntityInstances \cup OtherOperands
    /\ eqRes = NoCompare
    /\ InitVo
    /\ InitAlloc

\* e1 == e2, e2 == e1 and the two hashes are evaluated
Compare ==
    /\ ~eqRes.done
    /\ eqRes' = [done |-> TRUE,
                 vw |-> RichCompareEq(eqV, eqW),
                 wv |-> IF IsEntity(eqW) THEN RichCompareEq(eqW, eqV)
                        ELSE EntityDunderEq(eqV, eqW),
                 samehash |-> IsEntity(eqW) /\ EntityHash(eqV) = EntityHash(eqW)]
    /\ UNCHANGED <<eqV, eqW, nonEqVars>>

NextEq == Compare

SpecEq == InitEqOnly /\ [][NextEq]_vars

\* ---- SpecVo: one value object is constructed and then used ----
\* the classes: Data has fields only; Checked defines __post_init__; Derived
\* is a subclass of Checked whose own __post_init__ starts with
\* super().__post_init__()

InitVoOnly ==
    /\ variant = "sync"
    /\ backend = "memory"
    /\ event_bus = FALSE
    /\ InitUow
    /\ InitPj
    /\ handlers = <<>>
    /\ registered = <<>>
    /\ lastHandle = NoHandle
    /\ InitAgg
    /\ InitLoop
    /\ InitRepo
    /\ InitCtor
    /\ InitMem
    /\ InitEq
    /\ voCls \in VoClasses
    /\ voPc = "new"
    /\ voFields = [a \in VoAttrs |-> Unset]
    /\ voComplete = FALSE
    /\ voBuilt = [a \in VoAttrs |-> Unset]
    /\ voLast = NoVoCall
    /\ InitAlloc

\* the generated __init__ assigns the fields and goes on to __post_init__
VoInit(qty, name) ==
    /\ voPc = "new"
    /\ LET w1 == VoSetAttr(voComplete, voFields, "qty", qty)
           w2 == VoSetAttr(voComplete, w1.fields, "name", name)
       IN /\ voFields' = w2.fields
          /\ voLast' = [op |-> "setattr", phase |-> "init", name |-> "name",
                        exc |-> w2.exc, pre |-> voFields]
    /\ voPc' = "post_init"
    /\ UNCHANGED <<voCls, voComplete, voBuilt, nonVoVars>>

\* Derived's __post_init__ calls super().__post_init__(): the wrapper that
\* __init_subclass__ gave Checked runs Checked's own __post_init__, which
\* assigns an attribute, and then _finalize_init
VoSuperPostInit(name, value) ==
    /\ voPc = "post_init"
    /\ voCls = "Derived"
    /\ LET w == VoSetAttr(voComplete, voFields, name, value)
       IN /\ voFields' = w.fields
          /\ voLast' = [op |-> "setattr", phase |-> "post_init", name |-> name,
                        exc |-> w.exc, pre |-> voFields]
    /\ voComplete' = FinalizeInit(voComplete)
    /\ voPc' = "post_init_own"
    /\ UNCHANGED <<voCls, voBuilt, nonVoVars>>

\* the class's own __post_init__ assigns an attribute; an AttributeError ends
\* the construction
VoPostInitWrite(name, value) ==
    /\ \/ voPc = "post_init" /\ voCls = "Checked"
       \/ voPc = "post_init_own"
    /\ LET w == VoSetAttr(voComplete, voFields, name, value)
       IN /\ voFields' = w.fields
          /\ voLast' = [op |-> "setattr", phase |-> "post_init", name |-> name,
                        exc |-> w.exc, pre |-> voFields]
          /\ voPc' = IF w.exc = "none" THEN voPc ELSE "failed"
    /\ UNCHANGED <<voCls, voComplete, voBuilt, nonVoVars>>

\* the class's own __post_init__ returns (Data has none) and the wrapper calls
\* _finalize_init: the constructor returns the instance
VoPostInitReturn ==
    /\ \/ voPc = "post_init" /\ voCls \in {"Data", "Checked"}
       \/ voPc = "post_init_own"
    /\ voComplete' = FinalizeInit(voComplete)
    /\ voBuilt' = voFields
    /\ voPc' = "done"
    /\ voLast' = [op |-> "finalize", phase |-> "post_init", name |-> "",
                  exc |-> "none", pre |-> voFields]
    /\ UNCHANGED <<voCls, voFields, nonVoVars>>

\* v.name = value on the constructed instance
VoWrite(name, value) ==
    /\ voPc = "done"
    /\ LET w == VoSetAttr(voComplete, voFields, name, value)
       IN /\ voFields' = w.fields
          /\ voLast' = [op |-> "setattr", phase |-> "done", name |-> name,
                        exc |-> w.exc, pre |-> voFields]
    /\ UNCHANGED <<voCls, voPc, voComplete, voBuilt, nonVoVars>>

\* del v.name on the constructed instance
VoDelete(name) ==
    /\ voPc = "done"
    /\ LET w == VoDelAttr(voComplete, voFields, name)
       IN /\ voFields' = w.fields
          /\ voLast' = [op |-> "delattr", phase |-> "done", name |-> name,
                        exc |-> w.exc, pre |-> voFields]
    /\ UNCHANGED <<voCls, voPc, voComplete, voBuilt, nonVoVars>>

NextVo ==
    \/ \E qty \in VoValues, name \in VoValues : VoInit(qty, name)
    \/ \E name \in VoAttrs, value \in VoValues : VoSuperPostInit(name, value)
    \/ \E name \in VoAttrs, value \in VoValues : VoPostInitWrite(name, value)
    \/ VoPostInitReturn
    \/ \E name \in VoAttrs, value \in VoValues : VoWrite(name, value)
    \/ \E name \in VoAttrs : VoDelete(name)

SpecVo == InitVoOnly /\ [][NextVo]_vars

\* ---- SpecAlloc: order lines are allocated to a list of batches ----

InitAllocOnly ==
    /\ variant = "sync"
    /\ backend = "memory"
    /\ event_bus = FALSE
    /\ InitUow
    /\ InitPj
    /\ handlers = <<>>
    /\ registered = <<>>
    /\ lastHandle = NoHandle
    /\ InitAgg
    /\ InitLoop
    /\ InitRepo
    /\ InitCtor
    /\ InitMem
    /\ InitEq
    /\ InitVo
    /\ \E etas \in [BatchRefs -> Etas], qtys \in [BatchRefs -> {1, MaxQty + 1}], sku3 \in Skus :
          batches = [r \in BatchRefs |->
                       NewBatch(r, IF r = "b3" THEN sku3 ELSE "s1", qtys[r], etas[r])]
    /\ batchesBefore = batches
    /\ allocCalls = 0
    /\ allocLast = NoAllocCall

\* batches[ref].allocate(line)
AllocBatchAllocate(ref, line) ==
    /\ allocCalls < MaxAllocCalls
    /\ batches' = [batches EXCEPT ![ref] = BatchAllocate(@, line)]
    /\ batchesBefore' = batches
    /\ allocCalls' = allocCalls + 1
    /\ allocLast' = [op |-> "batch_allocate", line |-> line, ref |-> ref, order |-> <<>>,
                     ret |-> "None", exc |-> "none"]
    /\ UNCHANGED nonAllocVars

\* batches[ref].deallocate(line)
AllocBatchDeallocate(ref, line) ==
    /\ allocCalls < MaxAllocCalls
    /\ batches' = [batches EXCEPT ![ref] = BatchDeallocate(@, line)]
    /\ batchesBefore' = batches
    /\ allocCalls' = allocCalls + 1
    /\ allocLast' = [op |-> "batch_deallocate", line |-> line, ref |-> ref, order |-> <<>>,
                     ret |-> "None", exc |-> "none"]
    /\ UNCHANGED nonAllocVars

\* allocate(line, [batches[r] for r in order])
Allocate(line, order) ==
    /\ allocCalls < MaxAllocCalls
    /\ LET r == AllocateLine(line, batches, order)
       IN /\ batches' = r.bs
          /\ allocLast' = [op |-> "allocate", line |-> line, ref |-> "", order |-> order,
                           ret |-> r.ret, exc |-> r.exc]
    /\ batchesBefore' = batches
    /\ allocCalls' = allocCalls + 1
    /\ UNCHANGED nonAllocVars

NextAlloc ==
    \/ \E ref \in BatchRefs, line \in OrderLines : AllocBatchAllocate(ref, line)
    \/ \E ref \in BatchRefs, line \in OrderLines : AllocBatchDeallocate(ref, line)
    \/ \E line \in OrderLines, order \in Perms(BatchRefs) : Allocate(line, order)

SpecAlloc == InitAllocOnly /\ [][NextAlloc]_vars

\* ---- SpecPj: scopes on one unit of work of bloom.prajnan ----
InitPjOnly ==
    /\ variant = "sync"
    /\ backend = "memory"
    /\ event_bus = FALSE
    /\ InitUow
    /\ handlers = <<>>
    /\ registered = <<>>
    /\ lastHandle = NoHandle
    /\ InitAgg
    /\ InitLoop
    /\ InitRepo
    /\ InitCtor
    /\ InitMem
    /\ InitEq
    /\ InitVo
    /\ InitAlloc
    /\ pjBackend \in {"memory", "sqla"}
    /\ pjPc = "idle"
    /\ pjBody = <<>>
    /\ pjCommitted = FALSE
    /\ pjHist = <<>>

\* with uow(): the scope is entered (the SQLAlchemy variant takes a session)
PjEnter ==
    /\ pjPc = "idle"
    /\ Len(pjHist) < MaxPjScopes
    /\ pjPc' = "body"
    /\ pjBody' = IF pjBackend = "sqla" THEN <<Entry("session")>> ELSE <<>>
    /\ UNCHANGED <<pjBackend, pjCommitted, pjHist, nonPjVars>>

\* body: uow.commit() returns
PjBodyCommit ==
    /\ pjPc = "body"
    /\ Count(pjBody, "commit") < MaxPjCommits
    /\ pjBody' = Append(pjBody, Entry("commit"))
    /\ pjCommitted' = IF pjBackend = "memory" THEN TRUE ELSE pjCommitted
    /\ UNCHANGED <<pjBackend, pjPc, pjHist, nonPjVars>>

\* the with block is left; kind is "return" or what the body raised. Only the
\* session's commit and rollback can fail
PjLeave(kind) ==
    /\ pjPc = "body"
    /\ \E commitOk \in (IF kind = "return" /\ pjBackend = "sqla" THEN BOOLEAN ELSE {TRUE}),
          rbOk \in (IF pjBackend = "sqla" THEN BOOLEAN ELSE {TRUE}) :
          LET x == PjExit(pjBackend, kind, commitOk, rbOk)
          IN /\ pjHist' = Append(pjHist, [bodyEnd |-> kind, body |-> pjBody,
                                           tr |-> x.tr, exc |-> x.exc])
             /\ pjCommitted' = IF pjBackend = "memory" /\ Count(x.tr, "commit") > 0
                               THEN TRUE ELSE pjCommitted
    /\ pjPc' = "idle"
    /\ pjBody' = <<>>
    /\ UNCHANGED <<pjBackend, nonPjVars>>

NextPj ==
    \/ PjEnter
    \/ PjBodyCommit
    \/ \E kind \in {"return"} \cup ExcKinds : PjLeave(kind)

SpecPj == InitPjOnly /\ [][NextPj]_vars

\* ---- properties ----
\* the calls of the scope exit: the entries after the body's end
ExitPart(tr) ==
    IF \E i \in 1..Len(tr) : tr[i].op = "body_end"
    THEN SubSeq(tr, 1 + (CHOOSE i \in 1..Len(tr) : tr[i].op = "body_end"), Len(tr))
    ELSE <<>>

\* the aggregates tracked by a repository of the unit of work's list
TrackedAggregates ==
    Aggregates \cap UNION {tracked[repositories[i]] : i \in 1..Len(repositories)}

\* the events pending on those aggregates
PendingTracked == UNION {Range(events[a]) : a \in TrackedAggregates}

LeavesWith(kind) == pc = "body" /\ pc' = "idle" /\ bodyEnd' = kind

\* C1: every event handed to the bus was handed over by a scope whose body
\* completed without exception, and was not raised during a scope whose body
\* raised: such an event is delivered neither by that scope nor by a later one.
C1_NoEventOfFailedScope ==
    \A i \in 1..Len(delivered) :
        /\ delivered[i].scope \notin failedScopes
        /\ raisedLog[delivered[i].ev.event_id] \notin failedScopes

\* C2: an event is handed to the bus only after commit was invoked in the same
\* scope and returned; a scope whose body never commits publishes nothing.
C2_PublishedOnlyAfterCommit ==
    \A i \in 1..Len(trace) :
        trace[i].op = "handle" =>
            \E j \in 1..(i - 1) : trace[j].op = "commit" /\ trace[j].ok

\* C3 as claimed: after a body that finished without exception the scope exit
\* itself invokes commit, then collect_events, then publishes.
C3_ExitCommitsFirst ==
    (pc = "idle" /\ bodyEnd = "return") =>
        LET calls == SelectOps(ExitPart(trace), {"commit", "rollback", "collect", "handle"})
        IN /\ Len(calls) >= 2
           /\ calls[1].op = "commit"
           /\ calls[2].op = "collect"
           /\ \A k \in 3..Len(calls) : calls[k].op = "handle"

\* C3 as amended: after a body that finished without exception the scope exit
\* invokes no commit; it invokes collect_events once and then hands events to
\* the bus, at least one when a bus is registered and a tracked aggregate had
\* pending events, none when no bus is registered.
C3_ExitCollectsThenPublishes ==
    [][LeavesWith("return") =>
        LET calls == SelectOps(ExitPart(trace'), {"commit", "rollback", "collect", "handle"})
        IN /\ Len(calls) >= 1
           /\ calls[1].op = "collect"
           /\ \A k \in 2..Len(calls) : calls[k].op = "handle"
           /\ (event_bus /\ PendingTracked # {}) => Len(calls) >= 2
           /\ (~event_bus \/ PendingTracked = {}) => Len(calls) = 1]_vars

C3_Witness ==
    /\ pc = "idle" /\ bodyEnd = "return"
    /\ Count(ExitPart(trace), "handle") >= 1
    /\ Count(trace, "commit") = 0

C5_BusReceivesPendingTracked ==
    [][(LeavesWith("return") /\ outcome' = "none" /\ event_bus) =>
        LET got == SelectOps(ExitPart(trace'), {"handle"})
        IN /\ {got[i].ev : i \in 1..Len(got)} = PendingTracked
           /\ \A i, j \in 1..Len(got) : got[i].ev.event_id = got[j].ev.event_id => i = j
           /\ \A i \in 1..Len(got) :
                \E a \in TrackedAggregates :
                    /\ got[i].ev \in Range(events[a])
                    /\ got[i].ev.entity_id = EntityId(a)]_vars

C5_Witness ==
    /\ pc = "idle" /\ bodyEnd = "return" /\ outcome = "none" /\ event_bus
    /\ "e1" \in tracked["r1"]
    /\ LET got == SelectOps(ExitPart(trace), {"handle"})
       IN Len(got) = 2 /\ got[1].ev.entity_id # got[2].ev.entity_id

\* C6: the events returned by all flush_events calls so far, followed by the
\* pending ones, are the raised events in the order raised; right after a
\* flush nothing is pending, and a flush with no raise since the previous
\* flush returned the empty list.
C6_FlushExactlyOnce ==
    /\ aggHist.flat \o aggEvents = aggHist.raised
    /\ aggHist.last = "flush" => aggEvents = <<>> /\ aggHist.flat = aggHist.raised
    /\ (aggHist.last = "flush" /\ ~aggHist.wasDirty) => aggHist.ret = <<>>
    /\ \A i \in 1..Len(aggHist.raised) : aggHist.raised[i].event_id = i

C6_Witness ==
    /\ aggHist.last = "flush" /\ ~aggHist.wasDirty
    /\ Len(aggHist.raised) >= 2

\* C7: when a scope of the SQLAlchemy unit of work has been left, however the
\* body and the exit ended, the session taken at entry was released exactly once.
C7_SessionReleasedOnce ==
    (backend = "sqla" /\ pc = "idle" /\ scopeNo > 0) =>
        /\ Count(trace, "session") = 1
        /\ Count(trace, "remove") = 1

C7_Witness ==
    /\ backend = "sqla" /\ pc = "idle"
    /\ bodyEnd = "Exception" /\ outcome = "rollback_error"
    /\ Count(trace, "remove") = 1

\* C8: in the SQLAlchemy unit of work the release of the session is the last
\* step of the exit: it comes after the rollback and after the publication.
C8_ReleaseIsLast ==
    (backend = "sqla" /\ pc = "idle" /\ scopeNo > 0) =>
        LET ex == ExitPart(trace)
        IN \A i \in 1..Len(ex) :
              ex[i].op \in {"rollback", "handle"} =>
                  \E j \in (i + 1)..Len(ex) : ex[j].op = "remove"

\* the handlers registered for a type, in the order of the register calls
RECURSIVE RegisteredFor(_, _)
RegisteredFor(log, type) ==
    IF log = <<>> THEN <<>>
    ELSE (IF Head(log).type = type THEN <<Head(log).h>> ELSE <<>>)
         \o RegisteredFor(Tail(log), type)

\* the handlers that were registered for the type of the last handle call
\* when it was made
RegisteredAtCall == RegisteredFor(SubSeq(registered, 1, lastHandle.at), lastHandle.type)

FirstFailing(n, fails) ==
    IF fails \cap (1..n) = {} THEN n
    ELSE CHOOSE k \in fails \cap (1..n) : \A m \in fails \cap (1..n) : k <= m

\* C9: the sync bus invokes the handlers registered for the event's type in
\* registration order up to and including the first one that raises; its
\* exception propagates and no later handler is invoked.
C9_SyncStopsAtFirstFailure ==
    (lastHandle.called /\ variant = "sync") =>
        LET regd == RegisteredAtCall
            k == FirstFailing(Len(regd), lastHandle.fails)
        IN /\ lastHandle.res.invoked = SubSeq(regd, 1, k)
           /\ lastHandle.res.raised = (lastHandle.fails \cap (1..Len(regd)) # {})
           /\ lastHandle.res.logged = <<>>

C9_Witness ==
    /\ lastHandle.called /\ variant = "sync"
    /\ Len(RegisteredAtCall) >= 2
    /\ lastHandle.fails = {1}
    /\ Len(lastHandle.res.invoked) = 1
    /\ lastHandle.res.raised

\* C10: the async bus runs every handler registered for the event's type
\* whichever of them raise, records each failure once, and returns normally.
C10_AsyncIsolatesFailures ==
    (lastHandle.called /\ variant = "async") =>
        LET regd == RegisteredAtCall
            lg == lastHandle.res.logged
        IN /\ lastHandle.res.invoked = regd
           /\ ~lastHandle.res.raised
           /\ {lg[i].idx : i \in 1..Len(lg)} = lastHandle.fails
           /\ Len(lg) = Cardinality(lastHandle.fails)
           /\ \A i \in 1..Len(lg) : lg[i].h = regd[lg[i].idx]

C10_Witness ==
    /\ lastHandle.called /\ variant = "async"
    /\ Len(RegisteredAtCall) = 3
    /\ lastHandle.fails = {1, 3}
    /\ Len(lastHandle.res.logged) = 2
    /\ ~lastHandle.res.raised

\* C11: the async bus runs the handlers of one event concurrently and joins
\* them: no handler that has suspended is resumed before every handler of the
\* event has run its first step, and handle has returned only when every
\* handler registered for the event's type has finished (returned or raised).
C11_ConcurrentThenJoined ==
    /\ [](handleTask.st = "returned" =>
            /\ Len(tasks) = HandlerCount(handlers, handleTask.type)
            /\ \A i \in 1..Len(tasks) : tasks[i].st = "done" /\ tasks[i].ran >= 1)
    /\ [][\A i \in (DOMAIN tasks) \cap (DOMAIN tasks') :
            (tasks[i].ran >= 1 /\ tasks'[i].ran > tasks[i].ran) =>
                \A j \in DOMAIN tasks : tasks[j].ran >= 1]_vars

\* a later-registered handler has finished while the first one is suspended
C11_Witness ==
    /\ handleTask.st = "awaiting"
    /\ Len(tasks) >= 2
    /\ tasks[1].st = "waiting"
    /\ tasks[2].st = "done"

\* the register calls made before the last handle call
RegisteredBeforeCall == SubSeq(registered, 1, lastHandle.at)

\* C12: both buses dispatch by the exact class of the event: the handlers
\* invoked are handlers registered under that very class, in order from the
\* first, all of them when none raises; when nothing is registered under the
\* class, whatever is registered under its base class, its subclasses or other
\* classes, handle invokes nothing, logs nothing and does not raise.
C12_ExactTypeDispatch ==
    lastHandle.called =>
        LET regd == RegisteredAtCall
            inv == lastHandle.res.invoked
        IN /\ Len(inv) <= Len(regd)
           /\ inv = SubSeq(regd, 1, Len(inv))
           /\ lastHandle.fails = {} => inv = regd /\ ~lastHandle.res.raised
           /\ regd = <<>> => lastHandle.res = NoCall

\* an Allocate event is handled while handlers are registered for its base
\* class only: nothing is invoked
C12_Witness ==
    /\ lastHandle.called /\ lastHandle.type = "Allocate"
    /\ RegisteredAtCall = <<>>
    /\ RegisteredFor(RegisteredBeforeCall, "Event") # <<>>
    /\ lastHandle.res = NoCall

\* the handler list a registry holds for a type, empty when it has none
ListOf(reg, type) == IF type \in DOMAIN reg THEN reg[type] ELSE <<>>

Occurrences(seq, x) == Cardinality({i \in 1..Len(seq) : seq[i] = x})

\* C13: register only appends: the handler list of every event type is the
\* sequence of the handlers registered for it, in call order with duplicates
\* kept; one register call appends its handler to the list of its type and
\* leaves the lists of all other types as they were; a handle call in which no
\* handler raises invokes each handler as often as it was registered for the
\* event's type.
C13_RegisterAppends ==
    /\ [](\A t \in EventTypes : ListOf(handlers, t) = RegisteredFor(registered, t))
    /\ []((lastHandle.called /\ lastHandle.fails = {}) =>
            \A h \in HandlerNames :
                Occurrences(lastHandle.res.invoked, h) =
                    Cardinality({i \in 1..lastHandle.at :
                        registered[i] = [type |-> lastHandle.type, h |-> h]}))
    /\ [](DOMAIN handlers \subseteq EventTypes)
    /\ [][registered' # registered =>
            LET call == registered'[Len(registered')]
            IN \A t \in EventTypes :
                  ListOf(handlers', t) =
                      IF t = call.type THEN Append(ListOf(handlers, t), call.h)
                      ELSE ListOf(handlers, t)]_vars

\* a handler registered twice for a type was invoked twice for one event
C13_Witness ==
    /\ lastHandle.called /\ lastHandle.type = "Allocate"
    /\ lastHandle.res.invoked = <<"h1", "h1">>
    /\ ListOf(handlers, "Deallocate") # <<>>

\* a handler raised while the exit published
HandlerRaised(tr) == \E i \in 1..Len(tr) : tr[i].op = "handler" /\ ~tr[i].ok

\* C14: when a handler raises while the sync unit of work publishes at the
\* exit of a scope whose body finished without exception, the handler's
\* exception reaches the caller of the scope, rollback is not invoked, and a
\* commit made by the body stays made: the committed flag is left as it was.
C14_HandlerErrorKeepsCommit ==
    [][(LeavesWith("return") /\ variant = "sync" /\ HandlerRaised(ExitPart(trace'))) =>
        /\ outcome' = "handler_error"
        /\ Count(trace', "rollback") = 0
        /\ committed' = committed
        /\ Count(trace', "commit") = Count(trace, "commit")]_vars

C14_Witness ==
    /\ pc = "idle" /\ bodyEnd = "return" /\ variant = "sync" /\ backend = "memory"
    /\ HandlerRaised(ExitPart(trace))
    /\ outcome = "handler_error"
    /\ committed
    /\ Count(trace, "commit") = 1

\* the body of the current scope ended in a commit call that raised
CommitRaised(tr) == \E i \in 1..Len(tr) : tr[i].op = "commit" /\ ~tr[i].ok

Member(x, set) == \E y \in set : EntityEq(x, y)

\* C16: after any sequence of add and get calls the tracked set holds exactly
\* the entities passed to add or returned (not None) by get: every tracked
\* object is one of them, every one of them is a member of tracked, and no
\* entity is present twice however often it was added or fetched.
C16_TrackedIsAddedOrFetched ==
    /\ heap.internal \subseteq touched
    /\ \A x \in touched : Member(x, heap.internal)
    /\ \A x, y \in heap.internal : EntityEq(x, y) => x = y

\* add(a1), add(a2), get(a1.id): tracked is {a1, a2}
C16_Witness ==
    /\ lastCall.op = "get" /\ lastCall.ret = {"a1"}
    /\ touched = {"a1", "a2"}
    /\ heap.internal = {"a1", "a2"}

\* C17: the tracked property returns a snapshot copy: changing the returned
\* set never changes _tracked, hence no later read of tracked, and later add
\* and get calls never change a set that was returned before; what the
\* property returns are the elements of _tracked.
C17_TrackedIsSnapshot ==
    /\ [](lastCall.op = "tracked" => lastCall.ret = heap.internal)
    /\ [][lastCall'.op \in {"set_add", "set_discard"} =>
            heap'.internal = heap.internal]_vars
    /\ [][(lastCall'.op \in {"add", "get"} /\ snapRef # "none") =>
            heap'[snapRef] = heap[snapRef]]_vars

\* the caller changed the set it got and the repository tracked more since
C17_Witness ==
    /\ snapRef # "none"
    /\ lastCall.op = "add"
    /\ "a2" \in heap[snapRef] /\ "a2" \notin heap.internal
    /\ "a1" \in heap.internal /\ "a1" \notin heap[snapRef]

\* C18: after list() of a tracking repository has returned, every entity it
\* returned is a member of tracked.
C18_ListedAreTracked ==
    lastCall.op = "list" => \A x \in lastCall.ret : Member(x, heap.internal)

\* C19: get for an identity that is not stored returns None and leaves the
\* tracked set as it was; None is never an element of the tracked set.
C19_GetAbsentTracksNothing ==
    /\ []("None" \notin heap.internal)
    /\ [][(lastCall'.op = "get" /\ StoreGet(store, lastCall'.arg) = "None") =>
            /\ lastCall'.ret = {"None"}
            /\ heap'.internal = heap.internal]_vars

C19_Witness ==
    /\ lastCall.op = "get" /\ lastCall.arg = "a3" /\ lastCall.ret = {"None"}
    /\ heap.internal = {"a1"}

\* C20: every tracking repository that was assigned to an attribute of the
\* unit of work is a member of its repository list, which collect_events
\* walks, and the list holds nothing but the tracking repositories assigned.
C20_AssignedRepoIsRegistered ==
    /\ \A i \in 1..Len(ctorAssigned) :
          ctorAssigned[i] \in Repos => ctorAssigned[i] \in Range(ctorRepos)
    /\ Range(ctorRepos) \subseteq Repos \cap Range(ctorAssigned)

\* the identities under which d holds an entity
StoredIds(d) == {EntityId(d[i]) : i \in 1..Len(d)}

\* C21: bloom.prajnan's InMemoryRepository is a map from identity to entity:
\* after any sequence of add and remove, get(id) returns the entity last added
\* under id when it was not removed since and None otherwise, and list()
\* returns exactly those entities, one per identity; an add under an identity
\* that is already stored replaces the entity and does not grow the list.
C21_PrajnanRepositoryIsMap ==
    memKind = "prajnan" =>
        /\ \A id \in Identities : RepositoryGet(memKind, entities, id) = memModel[id]
        /\ LET all == RepositoryList(memKind, entities)
           IN /\ Range(all) = {memModel[id] : id \in Identities} \ {"None"}
              /\ \A i, j \in 1..Len(all) : EntityId(all[i]) = EntityId(all[j]) => i = j
        /\ memCall.op = "get" => memCall.ret = <<memModel[memCall.arg]>>
        /\ memCall.op = "list" =>
              Range(memCall.ret) = {memModel[id] : id \in Identities} \ {"None"}
        /\ (memCall.op = "add" /\ EntityId(memCall.arg) \in StoredIds(memCall.pre)) =>
              Len(entities) = Len(memCall.pre)

\* an entity was added under an identity that held another object, after
\* another identity had been removed
C21_Witness ==
    /\ memKind = "prajnan"
    /\ memCall.op = "add" /\ memCall.arg = "a1b"
    /\ DictGet(memCall.pre, "a1") = "a1"
    /\ RepositoryGet(memKind, entities, "a1") = "a1b"
    /\ Len(entities) = 1
    /\ memModel["a2"] = "None"

\* C22: for InMemoryRepository and AsyncInMemoryRepository of
\* bloom.repositories.memory, after add(e) and then remove(e.id), get(e.id)
\* returns None and e is not among the entities all() returns.
C22_MemoryRemoveThenAbsent ==
    (/\ memKind \in {"memory", "async_memory"}
     /\ memCall.op = "remove"
     /\ memCall.arg \in StoredIds(memCall.pre)) =>
        /\ RepositoryGet(memKind, entities, memCall.arg) = "None"
        /\ LET all == RepositoryList(memKind, entities)
           IN \A i \in 1..Len(all) : EntityId(all[i]) # memCall.arg

C24_NoCommitUnlessBodyCommits ==
    [][(LeavesWith("return") /\ Count(trace, "commit") = 0) =>
        /\ Count(trace', "commit") = 0
        /\ committed' = committed
        /\ (scopeNo = 1 => ~committed')
        /\ (outcome' # "none" => variant = "sync" /\ HandlerRaised(ExitPart(trace')))]_vars

\* the first scope of an async in-memory unit of work fetched an aggregate,
\* did not commit and returned
C24_Witness ==
    /\ pc = "idle" /\ bodyEnd = "return" /\ scopeNo = 1
    /\ variant = "async" /\ backend = "memory"
    /\ "a1" \in tracked["r1"]
    /\ Count(trace, "commit") = 0
    /\ ~committed
    /\ outcome = "none"

\* C25: EventPublishingRepository.add(aggregate) stores the aggregate in the
\* wrapped repository and then passes the aggregate's pending events to
\* publish_event, each once and in the order raised, and leaves the aggregate
\* without pending events; nothing is passed when none was raised. When a call
\* of publish_event raises, the events up to that one were passed in order and
\* the aggregate is stored and flushed all the same. get, remove and list
\* through the publishing repository return what the wrapped repository
\* returns and pass nothing to publish_event.
C25_AddPublishesPending ==
    /\ []((memCall.via = "publishing" /\ memCall.op = "add") =>
            /\ RepositoryGet(memKind, entities, EntityId(memCall.arg)) = memCall.arg
            /\ pubEvents[memCall.arg] = <<>>
            /\ memCall.exc = "none" => memCall.passed = memCall.pending
            /\ memCall.exc # "none" =>
                  /\ memCall.passed # <<>>
                  /\ memCall.passed = SubSeq(memCall.pending, 1, Len(memCall.passed)))
    /\ [](\A i, j \in 1..Len(published) : published[i] = published[j] => i = j)
    /\ [][(memCall'.via = "publishing" /\ memCall'.op = "add") =>
            published' = published \o memCall'.passed]_vars
    /\ [][(memCall'.via = "publishing" /\ memCall'.op \in {"get", "remove", "list"}) =>
            /\ published' = published
            /\ pubEvents' = pubEvents
            /\ memCall'.op = "get" =>
                  memCall'.ret = <<RepositoryGet(memKind, entities, memCall'.arg)>>
            /\ memCall'.op = "list" => memCall'.ret = RepositoryList(memKind, entities)
            /\ memCall'.op = "remove" =>
                  entities' = RepositoryRemove(memKind, entities, memCall'.arg).d]_vars

\* an aggregate with two pending events was added through the publishing
\* repository and both were passed on
C25_Witness ==
    /\ memCall.via = "publishing" /\ memCall.op = "add" /\ memCall.exc = "none"
    /\ Len(memCall.pending) = 2
    /\ memCall.passed = memCall.pending
    /\ Len(published) = 2
    /\ pubEvents[memCall.arg] = <<>>

\* C26: two entities whose concrete types differ and whose identities are
\* the same value are not equal, whichever operand stands on the left, also
\* when one type is a subclass of the other.
C26_DifferentTypesDiffer ==
    (eqRes.done /\ IsEntity(eqW) /\ eqV.type # eqW.type /\ eqV.id = eqW.id) =>
        ~eqRes.vw /\ ~eqRes.wv

\* a Batch was compared with a SpecialBatch of the same identity
C26_Witness ==
    /\ eqRes.done
    /\ eqV.type = "Batch" /\ eqW.type = "SpecialBatch" /\ eqV.id = eqW.id
    /\ ~eqRes.vw /\ ~eqRes.wv /\ ~eqRes.samehash

\* C27: a value object is writable only while it is constructed: the
\* attribute writes of the generated initialiser and of a user-defined
\* __post_init__ succeed; once the constructor has returned, every attribute
\* assignment and every deletion raises AttributeError and leaves the fields
\* as they were, so that the instance stays equal, with an equal hash, to one
\* built from the same field values.
C27_WritableOnlyWhileConstructed ==
    /\ (voLast.op = "setattr" /\ voLast.phase \in {"init", "post_init"}) =>
          voLast.exc = "none"
    /\ (voLast.op \in {"setattr", "delattr"} /\ voLast.phase = "done") =>
          voLast.exc = "AttributeError" /\ voFields = voLast.pre
    /\ voPc = "done" =>
          VoEq(voFields, voBuilt) /\ VoHash(voFields) = VoHash(voBuilt)

\* the batches that could take the line before the last call
Candidates(line) == {r \in BatchRefs : CanAllocate(batchesBefore[r], line)}

\* the place of ref r in the list passed to allocate
PosIn(order, r) == CHOOSE i \in 1..Len(order) : order[i] = r

\* what every reading of C28 shares: the line goes to one candidate that no
\* other candidate precedes, its id is returned, no other batch changes
AllocatePicksEarliest ==
    LET line == allocLast.line
        ret == allocLast.ret
    IN /\ allocLast.exc = "none"
       /\ ret \in Candidates(line)
       /\ \A c \in Candidates(line) : ~BatchLt(batchesBefore[c], batchesBefore[ret])
       /\ line \in batches[ret].lines
       /\ \A r \in BatchRefs \ {ret} : batches[r] = batchesBefore[r]

\* C28 as stated: allocate(line, batches) allocates the line to exactly one
\* batch, the candidate (same sku, enough available quantity) that comes first
\* when in-stock batches precede dated ones and an earlier eta precedes a later
\* one; it returns that batch's id and leaves every other batch unchanged,
\* whatever the order of the input list: every ordering of the same batches
\* gives the same result.
C28_AllocateIgnoresInputOrder ==
    (allocLast.op = "allocate" /\ Candidates(allocLast.line) # {}) =>
        /\ AllocatePicksEarliest
        /\ \A q \in Perms(BatchRefs) :
              AllocateLine(allocLast.line, batchesBefore, q).ret = allocLast.ret

\* C28 amended: allocate(line, batches) allocates the line to exactly one
\* batch, a candidate that no other candidate precedes (in-stock before dated,
\* earlier eta before later); among candidates of equal rank (several in
\* stock, or the same eta) it is the one that comes first in the input list.
\* It returns that batch's id and leaves every other batch unchanged. The
\* result is independent of the input order when the chosen batch strictly
\* precedes every other candidate.
C28_AllocateEarliestTiesByInputOrder ==
    (allocLast.op = "allocate" /\ Candidates(allocLast.line) # {}) =>
        LET line == allocLast.line
            ret == allocLast.ret
            others == Candidates(line) \ {ret}
        IN /\ AllocatePicksEarliest
           /\ \A c \in others :
                 \/ BatchLt(batchesBefore[ret], batchesBefore[c])
                 \/ PosIn(allocLast.order, ret) < PosIn(allocLast.order, c)
           /\ (\A c \in others : BatchLt(batchesBefore[ret], batchesBefore[c])) =>
                 \A q \in Perms(BatchRefs) :
                    AllocateLine(line, batchesBefore, q).ret = ret

\* allocate chose between two candidates of equal rank while a later-dated
\* candidate stood in front of the chosen one in the input list
C28_Witness ==
    /\ allocLast.op = "allocate"
    /\ allocLast.exc = "none"
    /\ \E c \in Candidates(allocLast.line) \ {allocLast.ret} :
          /\ ~BatchLt(batchesBefore[allocLast.ret], batchesBefore[c])
          /\ ~BatchLt(batchesBefore[c], batchesBefore[allocLast.ret])
    /\ \E d \in Candidates(allocLast.line) :
          /\ BatchLt(batchesBefore[allocLast.ret], batchesBefore[d])
          /\ PosIn(allocLast.order, d) < PosIn(allocLast.order, allocLast.ret)

\* C29: Batch.allocate is idempotent and Batch.deallocate only undoes real
\* allocations: a first allocation of a line the batch can take reduces the
\* available quantity by the line quantity, allocating the same line to the
\* same batch again changes nothing, and deallocating a line that is not
\* allocated to the batch leaves the batch, and so its available quantity,
\* unchanged.
C29_AllocateIdempotentDeallocateReal ==
    [][LET ref == allocLast'.ref
           line == allocLast'.line
       IN /\ (/\ allocLast'.op = "batch_allocate"
              /\ line \notin batches[ref].lines
              /\ CanAllocate(batches[ref], line)) =>
                AvailableQuantity(batches'[ref]) =
                    AvailableQuantity(batches[ref]) - line.qty
          /\ (/\ allocLast'.op = "batch_allocate"
              /\ allocCalls' = allocCalls + 1
              /\ allocLast.op = "batch_allocate"
              /\ allocLast.ref = ref
              /\ allocLast.line = line) =>
                batches' = batches
          /\ (/\ allocLast'.op = "batch_allocate"
              /\ allocCalls' = allocCalls + 1
              /\ line \in batches[ref].lines) =>
                batches' = batches
          /\ (/\ allocLast'.op = "batch_deallocate"
              /\ allocCalls' = allocCalls + 1
              /\ line \notin batches[ref].lines) =>
                /\ batches' = batches
                /\ AvailableQuantity(batches'[ref]) = AvailableQuantity(batches[ref])
      ]_vars

\* a line that the batch already held was allocated to it a second time, and
\* the batch's available quantity is its quantity less that one line
C29_Witness ==
    /\ allocLast.op = "batch_allocate"
    /\ allocLast.line \in batchesBefore[allocLast.ref].lines
    /\ batches[allocLast.ref].lines = {allocLast.line}
    /\ AvailableQuantity(batches[allocLast.ref]) =
          batches[allocLast.ref].qty - allocLast.line.qty

\* C30: AsyncTrackingRepository.remove(id) is pure delegation: it calls
\* remove(id) on the wrapped repository exactly once and then terminates
\* without an exception, leaving tracked unchanged.
C30_AsyncRemoveDelegatesOnce ==
    (variant = "async" /\ lastCall.op = "remove") =>
        /\ lastCall.delegated = 1
        /\ lastCall.exc = "none"

\* C31: whenever the body of an async unit-of-work scope terminates
\* abnormally, be it by an Exception or by something that is only a
\* BaseException (the CancelledError of a cancelled task), rollback has been
\* invoked by the time the scope has finished exiting.
C31_AbnormalExitRollsBack ==
    (variant = "async" /\ pc = "idle" /\ bodyEnd \in ExcKinds) =>
        Count(ExitPart(trace), "rollback") >= 1

PjCommitFailed(h) == \E k \in 1..Len(h.tr) : h.tr[k].op = "commit" /\ ~h.tr[k].ok

C34_DeliveredAtMostOnce ==
    \A i, j \in 1..Len(delivered) :
        delivered[i].ev.event_id = delivered[j].ev.event_id => i = j

\* the last scope delivered an event of an aggregate that two entries of the
\* repository list track, after an earlier scope had delivered one too
C34_Witness ==
    /\ pc = "idle" /\ bodyEnd = "return"
    /\ Len(repositories) = 2
    /\ Len(delivered) = 2
    /\ delivered[1].scope < delivered[2].scope
    /\ delivered[2].scope = scopeNo
    /\ \E a \in Aggregates :
          /\ a \in tracked[repositories[1]] \cap tracked[repositories[2]]
          /\ delivered[2].ev.entity_id = a

\* the identities of the events in the buffers
BufferedIds == {ev.event_id : ev \in UNION {Range(events[a]) : a \in Aggregates}}

\* the identities of the events handed to the bus so far
DeliveredIds == {delivered[i].ev.event_id : i \in 1..Len(delivered)}

\* C35: after a scope whose body completed without exception every aggregate
\* tracked by a registered repository has an empty buffer, with or without a
\* bus and whether or not publication raised. A drained event is never put
\* back: a buffer only gains the event that is being raised, and the bus is
\* only handed events that were pending on tracked aggregates when the scope
\* was left, so an event drained without delivery is delivered by no later
\* scope.
C35_DrainedForGood ==
    /\ []((pc = "idle" /\ bodyEnd = "return") =>
            \A a \in TrackedAggregates : events[a] = <<>>)
    /\ [][/\ \A a \in Aggregates : \A ev \in Range(events'[a]) :
                ev \in Range(events[a]) \/ ev.event_id = nextEventId
          /\ \A i \in (Len(delivered) + 1)..Len(delivered') :
                /\ delivered'[i].ev \in PendingTracked
                /\ LeavesWith("return")
          /\ \A id \in 1..(nextEventId - 1) :
                (id \notin BufferedIds /\ id \notin DeliveredIds) =>
                    (id \notin BufferedIds' /\ id \notin DeliveredIds')]_vars

\* an event raised in the first scope was drained without delivery (no bus,
\* or a handler raised before its turn); the second scope, whose body
\* completed, delivered nothing of it and left the buffers empty
C35_Witness ==
    /\ pc = "idle" /\ bodyEnd = "return" /\ scopeNo = 2
    /\ TrackedAggregates # {}
    /\ \E id \in 1..(nextEventId - 1) :
          /\ raisedLog[id] = 1
          /\ id \notin BufferedIds
          /\ id \notin DeliveredIds

C37_TrackedIsStoredObject ==
    /\ \A x \in heap.internal :
          StoreGet(store, EntityId(x)) # "None" => x = StoreGet(store, EntityId(x))
    /\ lastCall.op = "add" =>
          /\ StoreGet(store, EntityId(lastCall.arg)) = lastCall.arg
          /\ lastCall.arg \in heap.internal

\* the bus calls made by the exit of the last scope, in order
ExitBusCalls == SelectOps(ExitPart(trace), {"handle", "handler", "log"})

\* C38: the async unit of work publishes the collected events one at a time:
\* the calls made for one event (handle, its handlers, the logging of their
\* failures) form one block that starts with handle and holds every handler
\* registered for the event, failed or not, before anything is done for the
\* next event; events raised on one aggregate are published in the order in
\* which they were raised.
C38_AsyncPublishesOneAtATime ==
    (variant = "async" /\ pc = "idle" /\ bodyEnd = "return") =>
        LET x == ExitBusCalls
        IN /\ \A i, j, k \in 1..Len(x) :
                 (i < j /\ j < k /\ x[i].ev = x[k].ev) => x[j].ev = x[i].ev
           /\ \A i \in 1..Len(x) :
                 x[i].op # "handle" =>
                    \E j \in 1..(i - 1) : x[j].op = "handle" /\ x[j].ev = x[i].ev
           /\ \A i \in 1..Len(x) :
                 x[i].op = "handle" =>
                    Cardinality({j \in 1..Len(x) : x[j].op = "handler" /\ x[j].ev = x[i].ev})
                        = HandlerCount(handlers, x[i].ev.type)
           /\ \A i, j \in 1..Len(x) :
                 (/\ i < j
                  /\ x[i].op = "handle" /\ x[j].op = "handle"
                  /\ x[i].ev.entity_id = x[j].ev.entity_id) =>
                    x[i].ev.event_id < x[j].ev.event_id
           /\ outcome = "none"

\* two events of one aggregate were published by an async unit of work, a
\* handler of the first one failed and was logged before the second event was
\* handled
C38_Witness ==
    /\ variant = "async" /\ pc = "idle" /\ bodyEnd = "return"
    /\ LET x == ExitBusCalls
       IN \E i, j, k \in 1..Len(x) :
             /\ i < j /\ j < k
             /\ x[i].op = "handle" /\ x[j].op = "log" /\ x[k].op = "handle"
             /\ x[i].ev = x[j].ev
             /\ x[i].ev.entity_id = x[k].ev.entity_id
             /\ x[i].ev.event_id < x[k].ev.event_id

====
